---- MODULE Spec2Model ----
(***************************************************************************)
(* ReaDis: chunked text-to-speech playback (hooks/useSpeechSynthesis.ts),  *)
(* the processed-file cache (utils/fileCache) and the cache-first entry of *)
(* the PDF extraction pipeline (hooks/useContentExtraction.ts).            *)
(*                                                                         *)
(* Texts are sequences of one-character strings; positions are 0-based as  *)
(* in the source (text[i] of the source is text[i+1] here).                *)
(*                                                                         *)
(* React state: every setSession/setSettings call of the source uses a     *)
(* functional updater or is followed by a render before the next handler,  *)
(* so an updater is applied to the state at the call.                      *)
(***************************************************************************)
EXTENDS Integers, Sequences, FiniteSets, TLC

----------------------------------------------------------------------------
(* Bounds of the model *)

\* the default maxChunkSize of chunkTextForSpeech (32000), scaled to the
\* lengths of the texts of the model
SpeechChunkSize == 3
\* cancelled utterances whose callbacks may still be delivered
MaxStale == 1
\* pending inter-chunk timers
MaxTimers == 1
\* pending stop timers
MaxStopTimers == 1
\* utterances queued in the engine
MaxQueue == 2
\* calls of the user in one behaviour
MaxCalls == 3
\* texts of the chunking specification
MaxTextLen == 5
MaxN == 3
\* calls of extractFromPDF in one behaviour
MaxNow == 3
\* maxEntries (50) and maxSizeBytes (100 MB) of FileCache, scaled to the
\* files of the model
CacheMaxEntries == 3
CacheMaxSizeBytes == 5
\* pages of the documents of the page-processing specification
MaxDocPages == 4
\* pages processed at a time by processPdfInChunks (10) and by the worker
\* (chunkSize 3), and maxPages of the worker (500), scaled to the documents
PagesPerChunk == 2
WorkerChunkSize == 2
WorkerMaxPages == 3
\* requests of processPdfWithWorker and error events of the worker in one
\* behaviour
MaxRequests == 2
MaxWorkerErrors == 1
\* page blocks of the texts of the page-range specification and their
\* largest page number
MaxBlocks == 2
MaxPageNum == 3
\* calls of FileCache.set and FileCache.get in the cache specification, and
\* maxAge of cleanup in ticks of Date.now()
MaxCacheCalls == 4
CacheMaxAge == 1
\* blob URLs made by URL.createObjectURL
MaxBlobUrls == 3

----------------------------------------------------------------------------
(* Strings *)

Min(a, b) == IF a < b THEN a ELSE b
Max(a, b) == IF a > b THEN a ELSE b

\* String.prototype.slice(from, to) for 0 <= from, to
Slice(text, from, to) ==
  LET t == Min(to, Len(text))
  IN IF from >= t THEN << >> ELSE SubSeq(text, from + 1, t)

\* String.prototype.lastIndexOf(ch, fromIndex): the largest index i with
\* i <= fromIndex and text[i] = ch, or -1
LastIndexOf(text, ch, fromIndex) ==
  LET hits == { i \in 0..Min(fromIndex, Len(text) - 1) : text[i + 1] = ch }
  IN IF hits = {} THEN -1 ELSE CHOOSE i \in hits : \A j \in hits : j <= i

IsWhitespace(c) == c \in {" ", "\n", "\t"}

RECURSIVE TrimStart(_)
TrimStart(s) ==
  IF s # << >> /\ IsWhitespace(Head(s)) THEN TrimStart(Tail(s)) ELSE s

RECURSIVE TrimEnd(_)
TrimEnd(s) ==
  IF s # << >> /\ IsWhitespace(s[Len(s)]) THEN TrimEnd(SubSeq(s, 1, Len(s) - 1)) ELSE s

\* String.prototype.trim()
Trim(s) == TrimEnd(TrimStart(s))

RECURSIVE Join(_)
\* Array.prototype.join('')
Join(ss) == IF ss = << >> THEN << >> ELSE Head(ss) \o Join(Tail(ss))

RECURSIVE FilterNonEmpty(_)
FilterNonEmpty(ss) ==
  IF ss = << >> THEN << >>
  ELSE IF Len(Head(ss)) > 0 THEN << Head(ss) >> \o FilterNonEmpty(Tail(ss))
       ELSE FilterNonEmpty(Tail(ss))

----------------------------------------------------------------------------
(* chunkTextForSpeech *)

\* the end of the chunk that starts at currentIndex
ChunkEnd(text, maxChunkSize, currentIndex) ==
  LET chunkEnd == Min(currentIndex + maxChunkSize, Len(text))
      sentenceBreak == LastIndexOf(text, ".", chunkEnd)
      questionBreak == LastIndexOf(text, "?", chunkEnd)
      exclamationBreak == LastIndexOf(text, "!", chunkEnd)
      bestBreak == Max(sentenceBreak, Max(questionBreak, exclamationBreak))
      wordBreak == LastIndexOf(text, " ", chunkEnd)
  IN IF chunkEnd < Len(text)
     THEN IF 2 * bestBreak > 2 * currentIndex + maxChunkSize
          THEN bestBreak + 1
          ELSE IF 2 * wordBreak > 2 * currentIndex + maxChunkSize
               THEN wordBreak
               ELSE chunkEnd
     ELSE chunkEnd

RECURSIVE ChunkLoopMut(_, _, _, _)
ChunkLoopMut(text, maxChunkSize, currentIndex, chunks) ==
  IF currentIndex < Len(text)
  THEN LET chunkEnd == ChunkEnd(text, maxChunkSize, currentIndex)
       IN ChunkLoopMut(text, maxChunkSize, chunkEnd + 1,
                       Append(chunks, Trim(Slice(text, currentIndex, chunkEnd))))
  ELSE chunks

RECURSIVE ChunkLoop(_, _, _, _)
\* the while loop: chunks pushed so far, currentIndex
ChunkLoop(text, maxChunkSize, currentIndex, chunks) ==
  IF currentIndex < Len(text)
  THEN LET chunkEnd == ChunkEnd(text, maxChunkSize, currentIndex)
       IN ChunkLoop(text, maxChunkSize, chunkEnd,
                    Append(chunks, Trim(Slice(text, currentIndex, chunkEnd))))
  ELSE chunks

RECURSIVE ChunkCuts(_, _, _)
\* currentIndex and chunkEnd of the passes of the while loop from currentIndex on
ChunkCuts(text, maxChunkSize, currentIndex) ==
  IF currentIndex < Len(text)
  THEN LET chunkEnd == ChunkEnd(text, maxChunkSize, currentIndex)
       IN << [ currentIndex |-> currentIndex, chunkEnd |-> chunkEnd ] >>
            \o ChunkCuts(text, maxChunkSize, chunkEnd)
  ELSE << >>

chunkTextForSpeech(text, maxChunkSize) ==
  IF Len(text) <= maxChunkSize
  THEN << text >>
  ELSE FilterNonEmpty(ChunkLoop(text, maxChunkSize, 0, << >>))

----------------------------------------------------------------------------
(* useSpeechSynthesis: state *)

VARIABLES
  session,                   \* useState<ReadingSession>
  settings,                  \* useState<SpeechSettings>
  chunksRef,                 \* the chunk sequence of the last startReading
  currentChunkIndexRef,      \* the chunk cursor
  accumulatedCharactersRef,  \* characters of the chunks that have ended
  isChunkedPlaybackRef,      \* chunk advancement is enabled
  isStoppingRef,             \* a controlled stop is under way
  recentlyCanceled,          \* Date.now() - lastCancelAtRef.current < 1000
  actionLockRef,             \* reentrancy lock of pause and resume
  engineQueue,               \* speechSynthesis: utterances spoken or queued
  enginePaused,              \* speechSynthesis.paused
  staleUtterances,           \* cancelled utterances with callbacks in flight
  interChunkTimers,          \* pending 50 ms timers armed by onend
  lockTimer,                 \* the pending 120 ms timer: none, pause, resume
  stopTimers,                \* pending 500 ms timers armed by stopReading
  calls,                     \* the calls made by the last handler, in order
  callsLeft,                 \* calls the user may still make
  prev,                      \* history: the session before the last call of the user
  stopped,                   \* history: the last call of the user was stopReading
  sinceStart                 \* history since the last startReading: none, running, broken

speechVars == << session, settings, chunksRef, currentChunkIndexRef,
                 accumulatedCharactersRef, isChunkedPlaybackRef, isStoppingRef,
                 recentlyCanceled, actionLockRef, engineQueue, enginePaused,
                 staleUtterances, interChunkTimers, lockTimer, stopTimers,
                 calls, callsLeft, prev, stopped, sinceStart >>

\* the texts handed to startReading
Contents == { << >>, <<"a", "b", " ", "c">> }

Rates == {1, 2}
Pitches == {1}
Volumes == {1}
Voices == {"none", "en"}

NoPrev == [ isPlaying |-> FALSE, isPaused |-> FALSE, currentPosition |-> -1,
            settings |-> << >> ]

\* the state of the hook and of the engine as one record
Cur ==
  [ session |-> session, settings |-> settings, chunks |-> chunksRef,
    index |-> currentChunkIndexRef, acc |-> accumulatedCharactersRef,
    chunked |-> isChunkedPlaybackRef, stopping |-> isStoppingRef,
    recent |-> recentlyCanceled, lock |-> actionLockRef,
    queue |-> engineQueue, paused |-> enginePaused, stale |-> staleUtterances,
    timers |-> interChunkTimers, lockTimer |-> lockTimer,
    stopTimers |-> stopTimers, calls |-> << >> ]

Install(r) ==
  /\ session' = r.session
  /\ settings' = r.settings
  /\ chunksRef' = r.chunks
  /\ currentChunkIndexRef' = r.index
  /\ accumulatedCharactersRef' = r.acc
  /\ isChunkedPlaybackRef' = r.chunked
  /\ isStoppingRef' = r.stopping
  /\ recentlyCanceled' = r.recent
  /\ actionLockRef' = r.lock
  /\ engineQueue' = r.queue
  /\ enginePaused' = r.paused
  /\ staleUtterances' = r.stale
  /\ interChunkTimers' = r.timers
  /\ lockTimer' = r.lockTimer
  /\ stopTimers' = r.stopTimers
  /\ calls' = r.calls

----------------------------------------------------------------------------
(* The speech engine (window.speechSynthesis) *)

\* the last MaxStale utterances of a sequence
KeepLast(us) ==
  IF Len(us) > MaxStale THEN SubSeq(us, Len(us) - MaxStale + 1, Len(us)) ELSE us

\* speechSynthesis.cancel(): the queue is emptied; the callbacks of the
\* removed utterances may still be delivered; the engine leaves the paused state
EngineCancel(r) ==
  [ r EXCEPT !.queue = << >>,
             !.stale = KeepLast(r.stale \o r.queue),
             !.paused = FALSE,
             !.calls = Append(@, "cancel") ]

\* speechSynthesis.pause(): took = the engine honoured the pause
EnginePause(r, took) ==
  [ r EXCEPT !.paused = (@ \/ took), !.calls = Append(@, "pause") ]

\* speechSynthesis.speak(utterance)
EngineSpeak(r, chunk) ==
  [ r EXCEPT !.queue = Append(@, [len |-> Len(chunk), cursor |-> 0]),
             !.calls = Append(@, "speak") ]

\* speechSynthesis.speaking
EngineSpeaking(r) == r.queue # << >>

----------------------------------------------------------------------------
(* useSpeechSynthesis: the handlers, as functions of the state record *)

\* a handler was entered
Called(r, name) == [ r EXCEPT !.calls = Append(@, name) ]

\* lastCancelAtRef.current = Date.now(); speechSynthesis.cancel()
CancelNow(r) == EngineCancel([ r EXCEPT !.recent = TRUE ])

speakNextChunk(r) ==
  IF r.index >= Len(r.chunks)
  THEN [ r EXCEPT !.session = [ @ EXCEPT !.isPlaying = FALSE,
                                         !.isPaused = FALSE,
                                         !.currentPosition = r.session.totalCharacters ],
                  !.chunked = FALSE ]
  ELSE EngineSpeak(r, r.chunks[r.index + 1])

startReading(r0, content, fromPosition) ==
  LET r == Called(r0, "startReading")
  IN IF content = << >>
     THEN r
     ELSE LET c == CancelNow([ r EXCEPT !.stopping = FALSE ])
              textToRead == Slice(content, fromPosition, Len(content))
              chunks == chunkTextForSpeech(textToRead, SpeechChunkSize)
          IN speakNextChunk(
               [ c EXCEPT !.chunks = chunks,
                          !.index = 0,
                          !.acc = fromPosition,
                          !.chunked = TRUE,
                          !.session = [ @ EXCEPT !.content = content,
                                                 !.isPlaying = TRUE,
                                                 !.isPaused = FALSE,
                                                 !.totalCharacters = Len(content),
                                                 !.currentPosition = fromPosition ] ])

\* the session fields pauseReading sets
PausedSessionMut(s) == [ s EXCEPT !.isPaused = TRUE ]

PausedSessionToggle(s) == [ s EXCEPT !.isPlaying = s.isPaused, !.isPaused = ~s.isPaused ]

PausedSession(s) == [ s EXCEPT !.isPlaying = FALSE, !.isPaused = TRUE ]

pauseReadingMut(r0, took) ==
  LET r == Called(r0, "pauseReading")
      p == EnginePause([ r EXCEPT !.lock = TRUE ], took)
  IN [ p EXCEPT !.chunked = FALSE,
                !.session = PausedSession(@),
                !.lockTimer = "pause" ]

\* took: the engine honours the native pause
pauseReading(r0, took) ==
  LET r == Called(r0, "pauseReading")
  IN IF r.lock
     THEN r
     ELSE LET p == EnginePause([ r EXCEPT !.lock = TRUE ], took)
          IN [ p EXCEPT !.chunked = FALSE,
                        !.session = PausedSession(@),
                        !.lockTimer = "pause" ]

pauseFallbackMut(r) ==
  LET c == IF ~r.paused /\ ~EngineSpeaking(r)
           THEN [ CancelNow([ r EXCEPT !.stopping = TRUE ]) EXCEPT !.stopping = FALSE ]
           ELSE r
  IN [ c EXCEPT !.lock = FALSE, !.lockTimer = "none" ]

\* the 120 ms timer of pauseReading
pauseFallback(r) ==
  LET c == IF ~r.paused /\ EngineSpeaking(r)
           THEN [ CancelNow([ r EXCEPT !.stopping = TRUE ]) EXCEPT !.stopping = FALSE ]
           ELSE r
  IN [ c EXCEPT !.lock = FALSE, !.lockTimer = "none" ]

resumeReadingMut(r0) ==
  LET r == Called(r0, "resumeReading")
  IN IF r.session.isPaused /\ Len(r.chunks) > 0
     THEN IF r.lock
          THEN r
          ELSE LET content == r.session.content
                   c == CancelNow([ r EXCEPT !.lock = TRUE, !.stopping = TRUE ])
                   s == startReading([ c EXCEPT !.stopping = FALSE, !.chunked = FALSE ],
                                     content, 0)
               IN [ s EXCEPT !.session = [ @ EXCEPT !.isPlaying = TRUE,
                                                    !.isPaused = FALSE ],
                             !.lockTimer = "resume" ]
     ELSE r

resumeReading(r0) ==
  LET r == Called(r0, "resumeReading")
  IN IF r.session.isPaused /\ Len(r.chunks) > 0
     THEN IF r.lock
          THEN r
          ELSE LET fromPosition == r.session.currentPosition
                   content == r.session.content
                   c == CancelNow([ r EXCEPT !.lock = TRUE, !.stopping = TRUE ])
                   s == startReading([ c EXCEPT !.stopping = FALSE, !.chunked = FALSE ],
                                     content, fromPosition)
               IN [ s EXCEPT !.session = [ @ EXCEPT !.isPlaying = TRUE,
                                                    !.isPaused = FALSE ],
                             !.lockTimer = "resume" ]
     ELSE r

\* the 120 ms timer of resumeReading
resumeUnlock(r) == [ r EXCEPT !.lock = FALSE, !.lockTimer = "none" ]

stopReading(r0) ==
  LET r == Called(r0, "stopReading")
      c == CancelNow([ r EXCEPT !.stopping = TRUE ])
  IN [ c EXCEPT !.chunked = FALSE,
                !.chunks = << >>,
                !.index = 0,
                !.acc = 0,
                !.session = [ @ EXCEPT !.isPlaying = FALSE,
                                       !.isPaused = FALSE,
                                       !.currentPosition = 0 ],
                !.stopTimers = @ + 1 ]

\* the 500 ms timer of stopReading
stopTimeout(r) == [ r EXCEPT !.stopping = FALSE, !.stopTimers = @ - 1 ]

\* the effect on [settings.voice, settings.rate, settings.pitch, settings.volume]
settingsEffectMut(r) ==
  IF r.session.isPlaying /\ ~r.session.isPaused
  THEN LET fromPosition == r.session.currentPosition
           content == r.session.content
           c == CancelNow([ r EXCEPT !.stopping = TRUE ])
           s == startReading([ c EXCEPT !.stopping = FALSE, !.chunked = FALSE ],
                             content, fromPosition)
       IN startReading(s, content, fromPosition)
  ELSE r

settingsEffect(r) ==
  IF r.session.isPlaying /\ ~r.session.isPaused
  THEN LET fromPosition == r.session.currentPosition
           content == r.session.content
           c == CancelNow([ r EXCEPT !.stopping = TRUE ])
       IN startReading([ c EXCEPT !.stopping = FALSE, !.chunked = FALSE ],
                       content, fromPosition)
  ELSE r

\* the effect runs when one of its dependencies has changed
SettingsChanged(old, new) ==
  \/ old.voice # new.voice
  \/ old.rate # new.rate
  \/ old.pitch # new.pitch
  \/ old.volume # new.volume

updateSettings(r0, newSettings) ==
  LET r == Called(r0, "updateSettings")
      u == [ r EXCEPT !.settings = newSettings ]
  IN IF SettingsChanged(r.settings, newSettings) THEN settingsEffect(u) ELSE u

\* the voiceschanged listener: the default voice is set when an English
\* voice exists and no voice is selected
loadVoices(r0, englishVoice) ==
  LET r == Called(r0, "loadVoices")
  IN IF englishVoice /\ r.settings.voice = "none"
     THEN settingsEffect([ r EXCEPT !.settings = [ @ EXCEPT !.voice = "en" ] ])
     ELSE r

onboundaryMut(r, charIndex) ==
  [ r EXCEPT !.session = [ @ EXCEPT !.currentPosition = charIndex ] ]

\* utterance.onboundary with event.name === 'word'
onboundary(r, charIndex) ==
  [ r EXCEPT !.session = [ @ EXCEPT !.currentPosition = r.acc + charIndex ] ]

\* utterance.onend of an utterance of chunkLength characters
onend(r, chunkLength) ==
  [ r EXCEPT !.acc = @ + chunkLength,
             !.index = @ + 1,
             !.timers = @ + 1 ]

\* the 50 ms timer of onend
interChunkTimeout(r0) ==
  LET r == [ r0 EXCEPT !.timers = @ - 1 ]
  IN IF r.chunked THEN speakNextChunk(r) ELSE r

\* utterance.onerror
onerror(r, error) ==
  IF error = "interrupted" /\ (r.stopping \/ r.recent)
  THEN [ r EXCEPT !.chunked = FALSE ]
  ELSE [ r EXCEPT !.chunked = FALSE,
                  !.session = IF ~r.stopping /\ ~r.recent
                              THEN [ @ EXCEPT !.isPlaying = FALSE, !.isPaused = FALSE ]
                              ELSE @ ]

----------------------------------------------------------------------------
(* State of the other parts *)

VARIABLES
  text,          \* chunking: the text under test
  maxSize,       \* chunking: the maxChunkSize under test
  chunkResult,   \* chunking: << >> before the call, << chunks >> after it
  chunkCuts      \* chunking: history: currentIndex and chunkEnd of each pass of the loop

chunkVars == << text, maxSize, chunkResult, chunkCuts >>

VARIABLES
  cache,         \* FileCache.cache: the entries in insertion order
  hits,          \* FileCache.hits
  misses,        \* FileCache.misses
  now,           \* Date.now()
  exPc,          \* position in the call: idle, lookup, select, worker, chunked, direct,
                 \* pages, cleanup, recovery, other, finally
  exOp,          \* the extract operation of the call: pdf, webpage, image, word, spreadsheet
  exFile,        \* extractFromPDF: the file of the call
  isExtracting,  \* useState(false)
  isUsingOCR,    \* useState(false)
  progress,      \* the values given to setProgress during the call
  exStarted,     \* the strategies, the OCR and the recovery pass started during the
                 \* call, in order
  exPages,       \* pages accessed during the call
  exOutcome,     \* none, or the result or error of the call
  exBefore       \* history: the cache when the call started

extractVars == << cache, hits, misses, now, exPc, exOp, exFile, isExtracting,
                  isUsingOCR, progress, exStarted, exPages, exOutcome, exBefore >>

VARIABLES
  pgPc,          \* page processing: idle, validate, read, load, batch, pages, done
  pgStrategy,    \* chunked (processPdfInChunks), worker (processPdfInWorker), direct
  pgSize,        \* file.size in MB
  pgDoc,         \* the pages of the document: what getTextContent and OCR give
  pgNext,        \* the first page of the next batch
  pgPending,     \* the pages of the current batch that have not settled
  pgResults,     \* the results of the settled pages of the current batch
  pgChunks,      \* contentChunks / fullText: the blocks so far
  pgEffects,     \* history: the accesses and callbacks of the call, in order
  pgOut          \* none, or the result or error of the call

pageVars == << pgPc, pgStrategy, pgSize, pgDoc, pgNext, pgPending, pgResults,
               pgChunks, pgEffects, pgOut >>

VARIABLES
  workerRef,        \* workerRef.current: 0 for null, or the number of the worker
  wkCreated,        \* the workers created so far
  wkState,          \* the worker of workerRef: none, loading, alive, dead
  pendingRequests,  \* pendingRequests.current: the ids of the map
  rqState,          \* the promise of each request: unused, pending, resolved, rejected
  rqReading,        \* file.arrayBuffer() in flight: the request and the worker it will post to
  wkInbox,          \* the messages posted to the worker and not yet taken
  wkJobs,           \* the requests the worker is processing
  wkOutbox,         \* the responses posted by the worker and not yet delivered
  wkSent,           \* history: the responses the worker has posted with each id
  rqDelivered,      \* history: the responses handed to the callbacks of each request
  wkErrors          \* the error events so far

workerVars == << workerRef, wkCreated, wkState, pendingRequests, rqState, rqReading,
                 wkInbox, wkJobs, wkOutbox, wkSent, rqDelivered, wkErrors >>

VARIABLES
  rgBlocks,      \* page range: the page blocks the text is made of
  rgStart,       \* startPage
  rgEnd,         \* endPage
  rgResult       \* << >> before the call, << text >> after it

rangeVars == << rgBlocks, rgStart, rgEnd, rgResult >>

VARIABLES
  fcCall         \* FileCache: history of the last call: its arguments, the cache
                 \* before it and the cache after ensureSpace

VARIABLES
  refs,            \* BlobUrlManager.refs: the count of each blob URL, 0 when absent
  revoked,         \* the blob URLs given to URL.revokeObjectURL
  blCreated,       \* the number of blob URLs made by URL.createObjectURL
  blExtracting,    \* the URLs registered by extractions that have not returned
  currentContent,  \* AppContent: the fileData of currentContent, NoUrl when none
  prevBlobUrlRef,  \* AppContent: prevBlobUrlRef.current
  blEffect,        \* the effect on [currentContent] is scheduled
  blMounted,       \* AppContent is mounted
  blReplaced       \* history: the URLs the effect has released on a replacement

blobVars == << refs, revoked, blCreated, blExtracting, currentContent,
               prevBlobUrlRef, blEffect, blMounted, blReplaced >>

vars == << speechVars, chunkVars, extractVars, pageVars, workerVars, rangeVars, fcCall, blobVars >>

NoFile == [ name |-> "", size |-> 0, hash |-> << 0, 0 >> ]
NoOutcome == [ kind |-> "none" ]

ChunkIdle == text = << >> /\ maxSize = 1 /\ chunkResult = << >> /\ chunkCuts = << >>

PagesIdle ==
  /\ pgPc = "idle" /\ pgStrategy = "none" /\ pgSize = 0 /\ pgDoc = << >>
  /\ pgNext = 1 /\ pgPending = {} /\ pgResults = << >> /\ pgChunks = << >>
  /\ pgEffects = << >> /\ pgOut = NoOutcome

RangeIdle == rgBlocks = << >> /\ rgStart = 1 /\ rgEnd = 1 /\ rgResult = << >>

NoCall == [ op |-> "none" ]

CacheCallIdle == fcCall = NoCall

WorkerIdle ==
  /\ workerRef = 0 /\ wkCreated = 0 /\ wkState = "none"
  /\ pendingRequests = {}
  /\ rqState = [ id \in 1..MaxRequests |-> "unused" ]
  /\ rqReading = {}
  /\ wkInbox = << >> /\ wkJobs = {} /\ wkOutbox = << >>
  /\ wkSent = [ id \in 1..MaxRequests |-> << >> ]
  /\ rqDelivered = [ id \in 1..MaxRequests |-> << >> ]
  /\ wkErrors = 0

ExtractIdle ==
  /\ cache = << >> /\ hits = 0 /\ misses = 0 /\ now = 0
  /\ exPc = "idle" /\ exOp = "pdf" /\ exFile = NoFile /\ isExtracting = FALSE
  /\ isUsingOCR = FALSE
  /\ progress = << >> /\ exStarted = << >> /\ exPages = 0
  /\ exOutcome = NoOutcome /\ exBefore = << >>

----------------------------------------------------------------------------
(* useSpeechSynthesis: actions *)

SpeechInit ==
  /\ session = [ content |-> << >>, currentPosition |-> 0, isPlaying |-> FALSE,
                 isPaused |-> FALSE, totalCharacters |-> 0 ]
  /\ settings = [ rate |-> 1, pitch |-> 1, volume |-> 1, voice |-> "none" ]
  /\ chunksRef = << >>
  /\ currentChunkIndexRef = 0
  /\ accumulatedCharactersRef = 0
  /\ isChunkedPlaybackRef = FALSE
  /\ isStoppingRef = FALSE
  /\ recentlyCanceled = FALSE
  /\ actionLockRef = FALSE
  /\ engineQueue = << >>
  /\ enginePaused = FALSE
  /\ staleUtterances = << >>
  /\ interChunkTimers = 0
  /\ lockTimer = "none"
  /\ stopTimers = 0
  /\ calls = << >>
  /\ callsLeft = MaxCalls
  /\ prev = NoPrev
  /\ stopped = FALSE
  /\ sinceStart = "none"

\* history after a call of the user; started: startReading ran past its guard
AfterUserCall(r) ==
  LET started == \E i \in 1..(Len(r.calls) - 1) :
                   r.calls[i] = "startReading" /\ r.calls[i + 1] = "cancel"
  IN /\ callsLeft > 0
     /\ callsLeft' = callsLeft - 1
     /\ prev' = [ isPlaying |-> session.isPlaying, isPaused |-> session.isPaused,
                  currentPosition |-> session.currentPosition,
                  settings |-> settings ]
     /\ stopped' = (r.calls[1] = "stopReading")
     /\ sinceStart' = IF started THEN "running"
                      ELSE IF r.calls[1] \in {"stopReading", "pauseReading"}
                              /\ sinceStart # "none"
                           THEN "broken"
                           ELSE sinceStart

\* history after a callback of the engine or a timer
AfterCallback == prev' = NoPrev /\ UNCHANGED << callsLeft, stopped, sinceStart >>

StartReading ==
  \E content \in Contents : \E fromPosition \in 0..Len(content) :
    LET r == startReading(Cur, content, fromPosition)
    IN /\ Install(r)
       /\ AfterUserCall(r)
       /\ UNCHANGED << chunkVars, extractVars, pageVars, workerVars, rangeVars, fcCall, blobVars >>

PauseReading ==
  \E took \in BOOLEAN :
    LET r == pauseReading(Cur, took)
    IN /\ Install(r)
       /\ AfterUserCall(r)
       /\ UNCHANGED << chunkVars, extractVars, pageVars, workerVars, rangeVars, fcCall, blobVars >>

ResumeReading ==
  LET r == resumeReading(Cur)
  IN /\ Install(r)
     /\ AfterUserCall(r)
     /\ UNCHANGED << chunkVars, extractVars, pageVars, workerVars, rangeVars, fcCall, blobVars >>

StopReading ==
  /\ stopTimers < MaxStopTimers
  /\ LET r == stopReading(Cur)
     IN /\ Install(r)
        /\ AfterUserCall(r)
  /\ UNCHANGED << chunkVars, extractVars, pageVars, workerVars, rangeVars, fcCall, blobVars >>

UpdateSettings ==
  \E newSettings \in [ rate : Rates, pitch : Pitches, volume : Volumes, voice : Voices ] :
    LET r == updateSettings(Cur, newSettings)
    IN /\ Install(r)
       /\ AfterUserCall(r)
       /\ UNCHANGED << chunkVars, extractVars, pageVars, workerVars, rangeVars, fcCall, blobVars >>

LoadVoices ==
  \E englishVoice \in BOOLEAN :
    LET r == loadVoices(Cur, englishVoice)
    IN /\ Install(r)
       /\ AfterUserCall(r)
       /\ UNCHANGED << chunkVars, extractVars, pageVars, workerVars, rangeVars, fcCall, blobVars >>

\* a word boundary of the utterance that is being spoken
EngineBoundary ==
  /\ engineQueue # << >>
  /\ ~enginePaused
  /\ \E charIndex \in 0..(Head(engineQueue).len - 1) :
       Install(onboundary(Cur, charIndex))
  /\ AfterCallback
  /\ UNCHANGED << chunkVars, extractVars, pageVars, workerVars, rangeVars, fcCall, blobVars >>

\* the utterance that is being spoken ends
EngineEnd ==
  /\ engineQueue # << >>
  /\ ~enginePaused
  /\ interChunkTimers < MaxTimers
  /\ LET r == [ Cur EXCEPT !.queue = Tail(@) ]
     IN Install(onend(r, Head(engineQueue).len))
  /\ AfterCallback
  /\ UNCHANGED << chunkVars, extractVars, pageVars, workerVars, rangeVars, fcCall, blobVars >>

\* the engine fails on the utterance that is being spoken
EngineError ==
  /\ engineQueue # << >>
  /\ \E error \in {"synthesis-failed"} :
       LET r == [ Cur EXCEPT !.queue = Tail(@) ]
       IN Install(onerror(r, error))
  /\ sinceStart' = IF sinceStart = "none" THEN "none" ELSE "broken"
  /\ prev' = NoPrev
  /\ UNCHANGED << callsLeft, stopped, chunkVars, extractVars, pageVars, workerVars, rangeVars, fcCall, blobVars >>

RemoveAt(us, i) == SubSeq(us, 1, i - 1) \o SubSeq(us, i + 1, Len(us))

\* a word boundary of a cancelled utterance is delivered late; the events in
\* flight are those of words after cursor
StaleBoundary ==
  \E i \in 1..Len(staleUtterances) :
    \E charIndex \in staleUtterances[i].cursor..(staleUtterances[i].len - 1) :
      LET r == [ Cur EXCEPT !.stale[i].cursor = charIndex + 1 ]
      IN /\ Install(onboundary(r, charIndex))
         /\ AfterCallback
  /\ UNCHANGED << chunkVars, extractVars, pageVars, workerVars, rangeVars, fcCall, blobVars >>

\* the end event of a cancelled utterance is delivered late
StaleEnd ==
  /\ interChunkTimers < MaxTimers
  /\ \E i \in 1..Len(staleUtterances) :
       LET r == [ Cur EXCEPT !.stale = RemoveAt(@, i) ]
       IN Install(onend(r, staleUtterances[i].len))
  /\ AfterCallback
  /\ UNCHANGED << chunkVars, extractVars, pageVars, workerVars, rangeVars, fcCall, blobVars >>

\* the error event of a cancelled utterance is delivered
StaleError ==
  /\ \E i \in 1..Len(staleUtterances) : \E error \in {"interrupted", "canceled"} :
       LET r == [ Cur EXCEPT !.stale = RemoveAt(@, i) ]
       IN Install(onerror(r, error))
  /\ AfterCallback
  /\ UNCHANGED << chunkVars, extractVars, pageVars, workerVars, rangeVars, fcCall, blobVars >>

InterChunkTimeout ==
  /\ interChunkTimers > 0
  /\ Len(engineQueue) < MaxQueue
  /\ Install(interChunkTimeout(Cur))
  /\ AfterCallback
  /\ UNCHANGED << chunkVars, extractVars, pageVars, workerVars, rangeVars, fcCall, blobVars >>

PauseFallback ==
  /\ lockTimer = "pause"
  /\ Install(pauseFallback(Cur))
  /\ AfterCallback
  /\ UNCHANGED << chunkVars, extractVars, pageVars, workerVars, rangeVars, fcCall, blobVars >>

ResumeUnlock ==
  /\ lockTimer = "resume"
  /\ Install(resumeUnlock(Cur))
  /\ AfterCallback
  /\ UNCHANGED << chunkVars, extractVars, pageVars, workerVars, rangeVars, fcCall, blobVars >>

StopTimeout ==
  /\ stopTimers > 0
  /\ Install(stopTimeout(Cur))
  /\ AfterCallback
  /\ UNCHANGED << chunkVars, extractVars, pageVars, workerVars, rangeVars, fcCall, blobVars >>

\* one second has passed since the last cancel; the 500 ms timer of a stop
\* and the 120 ms timer of a resume were armed with a cancel and fire first
CancelWindowElapses ==
  /\ recentlyCanceled
  /\ stopTimers = 0
  /\ lockTimer # "resume"
  /\ Install([ Cur EXCEPT !.recent = FALSE ])
  /\ AfterCallback
  /\ UNCHANGED << chunkVars, extractVars, pageVars, workerVars, rangeVars, fcCall, blobVars >>

SpeechNext ==
  \/ StartReading
  \/ PauseReading
  \/ ResumeReading
  \/ StopReading
  \/ UpdateSettings
  \/ LoadVoices
  \/ EngineBoundary
  \/ EngineEnd
  \/ EngineError
  \/ StaleBoundary
  \/ StaleEnd
  \/ StaleError
  \/ InterChunkTimeout
  \/ PauseFallback
  \/ ResumeUnlock
  \/ StopTimeout
  \/ CancelWindowElapses

----------------------------------------------------------------------------
(* Uninterrupted playback: one startReading, then the events of the engine
   in order and the inter-chunk timer *)

PlaybackContents == { <<"a", "b", " ", "c">>,
                      <<"a", "b", ".", " ", "c", "d", " ", "e">> }

PlaybackStart ==
  /\ sinceStart = "none"
  /\ \E content \in PlaybackContents : \E fromPosition \in 0..Len(content) :
       LET r == startReading(Cur, content, fromPosition)
       IN /\ Install(r)
          /\ AfterUserCall(r)
  /\ UNCHANGED << chunkVars, extractVars, pageVars, workerVars, rangeVars, fcCall, blobVars >>

\* word boundaries of the utterance that is being spoken, delivered with
\* non-decreasing charIndex
OrderedBoundary ==
  /\ engineQueue # << >>
  /\ ~enginePaused
  /\ \E charIndex \in Head(engineQueue).cursor..(Head(engineQueue).len - 1) :
       LET r == [ Cur EXCEPT !.queue[1].cursor = charIndex ]
       IN Install(onboundary(r, charIndex))
  /\ AfterCallback
  /\ UNCHANGED << chunkVars, extractVars, pageVars, workerVars, rangeVars, fcCall, blobVars >>

PlaybackNext ==
  \/ PlaybackStart
  \/ OrderedBoundary
  \/ EngineEnd
  \/ InterChunkTimeout

----------------------------------------------------------------------------
(* chunkTextForSpeech on its own *)

Alphabet == {"a", "b", ".", "?", " "}

RECURSIVE Texts(_)
\* the texts of at most n characters
Texts(n) ==
  IF n = 0 THEN { << >> }
  ELSE LET shorter == Texts(n - 1)
       IN shorter \cup { Append(t, c) : t \in { u \in shorter : Len(u) = n - 1 }, c \in Alphabet }

ChunkInit ==
  /\ text \in Texts(MaxTextLen)
  /\ maxSize \in 1..MaxN
  /\ chunkResult = << >>
  /\ chunkCuts = << >>

ChunkText ==
  /\ chunkResult = << >>
  /\ chunkResult' = << chunkTextForSpeech(text, maxSize) >>
  /\ chunkCuts' = IF Len(text) <= maxSize THEN << >> ELSE ChunkCuts(text, maxSize, 0)
  /\ UNCHANGED << text, maxSize, speechVars, extractVars, pageVars, workerVars, rangeVars, fcCall, blobVars >>

ChunkNext == ChunkText

----------------------------------------------------------------------------
(* FileCache *)

\* the files offered to extractFromPDF; size in MB, hash as the first 16 hex
\* characters of the SHA-256 digest and the rest of it
Files ==
  [ name : {"f"}, size : {0, 2, 8, 60, 600}, hash : { << 1, 1 >>, << 2, 1 >> } ]

\* the text of the pages of a file
PdfText(file) == << file.name, file.hash[1] >>

generateFileHash(file) == file.hash

\* `${fileName}_${fileSize}_${fileHash.substring(0, 16)}`
generateCacheKey(fileName, fileSize, fileHash) == << fileName, fileSize, fileHash[1] >>

shouldCache(file) == file.size >= 1 /\ file.size <= 50

\* Map.get: the position of the entry of key, 0 when there is none
Position(c, key) ==
  IF \E i \in 1..Len(c) : c[i].id = key
  THEN CHOOSE i \in 1..Len(c) : c[i].id = key
  ELSE 0

RECURSIVE SumLengths(_)
\* getCurrentSize
SumLengths(c) == IF c = << >> THEN 0 ELSE Len(Head(c).content) + SumLengths(Tail(c))

\* a precedes b in the order of the sort of evictLeastUsed (a stable sort:
\* entries that compare equal keep their insertion order i < j)
Precedes(c, i, j) ==
  \/ c[i].accessCount < c[j].accessCount
  \/ c[i].accessCount = c[j].accessCount /\ c[i].lastAccessed < c[j].lastAccessed
  \/ c[i].accessCount = c[j].accessCount /\ c[i].lastAccessed = c[j].lastAccessed /\ i < j

RECURSIVE Keep(_, _, _)
\* the entries of c from position i on whose position is not in removed
Keep(c, removed, i) ==
  IF i > Len(c) THEN << >>
  ELSE IF i \in removed THEN Keep(c, removed, i + 1)
       ELSE << c[i] >> \o Keep(c, removed, i + 1)

\* evictLeastUsed: the first max(1, floor(n * 0.25)) entries of the sorted
\* list are deleted; thrown: entries[0] of an empty list is destructured
evictLeastUsed(c) ==
  LET entriesToRemove == Max(1, Len(c) \div 4)
      removed == { i \in 1..Len(c) :
                     Cardinality({ j \in 1..Len(c) : Precedes(c, j, i) }) < entriesToRemove }
  IN IF c = << >>
     THEN [ cache |-> c, thrown |-> TRUE ]
     ELSE [ cache |-> Keep(c, removed, 1), thrown |-> FALSE ]

ensureSpace(c, newContentSize) ==
  IF Len(c) >= CacheMaxEntries \/ SumLengths(c) + newContentSize > CacheMaxSizeBytes
  THEN evictLeastUsed(c)
  ELSE [ cache |-> c, thrown |-> FALSE ]

\* FileCache.get: the entry found (or none) and the cache after the call
cacheGetMut(c, file, t) ==
  LET key == generateCacheKey(file.name, file.size, generateFileHash(file))
      i == Position(c, key)
  IN IF i # 0
     THEN [ found |-> TRUE,
            cache |-> [ c EXCEPT ![i].accessCount = @ + 1, ![i].lastAccessed = t,
                                 ![i].timestamp = t ] ]
     ELSE [ found |-> FALSE, cache |-> c ]

cacheGet(c, file, t) ==
  LET key == generateCacheKey(file.name, file.size, generateFileHash(file))
      i == Position(c, key)
  IN IF i # 0
     THEN [ found |-> TRUE,
            cache |-> [ c EXCEPT ![i].accessCount = @ + 1, ![i].lastAccessed = t ] ]
     ELSE [ found |-> FALSE, cache |-> c ]

\* FileCache.set; an error thrown by ensureSpace is caught and the entry is
\* not stored
cacheSet(c, file, content, processingMethod, t) ==
  LET key == generateCacheKey(file.name, file.size, generateFileHash(file))
      entry == [ id |-> key, fileName |-> file.name, fileSize |-> file.size,
                 fileHash |-> generateFileHash(file), content |-> content,
                 processingMethod |-> processingMethod, timestamp |-> t,
                 accessCount |-> 1, lastAccessed |-> t ]
      space == ensureSpace(c, Len(content))
      i == Position(space.cache, key)
  IN IF space.thrown THEN c
     ELSE IF i # 0 THEN [ space.cache EXCEPT ![i] = entry ]
          ELSE Append(space.cache, entry)

\* the files and the contents handed to FileCache.set and FileCache.get
CacheFiles == { f \in Files : f.size \in {2, 8} }

CacheContents == { [ i \in 1..n |-> "x" ] : n \in {1, 4, 6} }

\* await fileCache.set(file, content, ...)
CacheSetCall ==
  /\ exPc = "idle"
  /\ now < MaxCacheCalls
  /\ now' = now + 1
  /\ \E file \in CacheFiles : \E content \in CacheContents :
       /\ cache' = cacheSet(cache, file, content, "direct", now')
       /\ fcCall' = [ op |-> "set", file |-> file, content |-> content,
                      before |-> cache,
                      space |-> ensureSpace(cache, Len(content)) ]
  /\ UNCHANGED << hits, misses, exPc, exOp, exFile, isExtracting, isUsingOCR, progress,
                  exStarted, exPages, exOutcome, exBefore,
                  speechVars, chunkVars, pageVars, workerVars, rangeVars, blobVars >>

\* await fileCache.get(file)
CacheGetCall ==
  /\ exPc = "idle"
  /\ now < MaxCacheCalls
  /\ now' = now + 1
  /\ \E file \in CacheFiles :
       LET got == cacheGet(cache, file, now')
       IN /\ cache' = got.cache
          /\ hits' = IF got.found THEN hits + 1 ELSE hits
          /\ misses' = IF got.found THEN misses ELSE misses + 1
          /\ fcCall' = [ op |-> "get", file |-> file, before |-> cache, at |-> now',
                         returned |->
                           IF got.found
                           THEN << got.cache[Position(got.cache,
                                     generateCacheKey(file.name, file.size,
                                                      generateFileHash(file)))] >>
                           ELSE << >> ]
  /\ UNCHANGED << exPc, exOp, exFile, isExtracting, isUsingOCR, progress,
                  exStarted, exPages, exOutcome, exBefore,
                  speechVars, chunkVars, pageVars, workerVars, rangeVars, blobVars >>

\* cleanup, every 5 minutes: the entries older than maxAge are deleted
CacheCleanup ==
  /\ exPc = "idle"
  /\ \E i \in 1..Len(cache) : now - cache[i].timestamp > CacheMaxAge
  /\ cache' = SelectSeq(cache, LAMBDA e : ~(now - e.timestamp > CacheMaxAge))
  /\ fcCall' = [ op |-> "cleanup", before |-> cache ]
  /\ UNCHANGED << hits, misses, now, exPc, exOp, exFile, isExtracting, isUsingOCR,
                  progress, exStarted, exPages, exOutcome, exBefore,
                  speechVars, chunkVars, pageVars, workerVars, rangeVars, blobVars >>

CacheNext ==
  \/ CacheSetCall
  \/ CacheGetCall
  \/ CacheCleanup

----------------------------------------------------------------------------
(* extractFromPDF and the other extract operations *)

\* the numbers of pages of the documents: one batch or several in the worker
\* (chunkSize 3) and in the chunked processor (10 pages at a time)
NumPages == {1, 5, 15}

\* the operations of the hook besides extractFromPDF
OtherOps == {"webpage", "image", "word", "spreadsheet"}

\* Math.ceil(a / b)
Ceil(a, b) == (a + b - 1) \div b

\* Math.round(a / b) for a, b > 0
Round(a, b) == (2 * a + b) \div (2 * b)

\* the prefixes of a sequence
Prefixes(seq) == { SubSeq(seq, 1, k) : k \in 0..Len(seq) }

\* the call: setIsExtracting(true); setProgress(0)
ExtractFromPDF ==
  /\ exPc = "idle"
  /\ now < MaxNow
  /\ \E file \in Files :
       /\ exFile' = file
       /\ exBefore' = cache
  /\ now' = now + 1
  /\ exOp' = "pdf"
  /\ exPc' = "lookup"
  /\ isExtracting' = TRUE
  /\ progress' = << 0 >>
  /\ exStarted' = << >>
  /\ exPages' = 0
  /\ exOutcome' = NoOutcome
  /\ UNCHANGED << cache, hits, misses, isUsingOCR, speechVars, chunkVars, pageVars, workerVars, rangeVars, fcCall, blobVars >>

\* the cache is consulted for a cacheable file; a hit returns the cached content
CacheLookup ==
  /\ exPc = "lookup"
  /\ IF shouldCache(exFile)
     THEN LET got == cacheGet(cache, exFile, now)
              key == generateCacheKey(exFile.name, exFile.size, generateFileHash(exFile))
          IN IF got.found
             THEN /\ cache' = got.cache
                  /\ hits' = hits + 1
                  /\ misses' = misses
                  /\ progress' = progress \o << 2, 95, 100 >>
                  /\ exOutcome' = [ kind |-> "ok",
                                    content |-> got.cache[Position(got.cache, key)].content ]
                  /\ exPc' = "finally"
             ELSE /\ misses' = misses + 1
                  /\ progress' = Append(progress, 2)
                  /\ exPc' = "select"
                  /\ UNCHANGED << cache, hits, exOutcome >>
     ELSE /\ exPc' = "select"
          /\ UNCHANGED << cache, hits, misses, progress, exOutcome >>
  /\ UNCHANGED << now, exOp, exFile, isExtracting, isUsingOCR, exStarted, exPages,
                  exBefore, speechVars, chunkVars, pageVars, workerVars, rangeVars, fcCall, blobVars >>

\* shouldUseWorker: files larger than 5 MB
shouldUseWorker(file) == file.size > 5

preferWorker(file) ==
  file.size > 25 \/ (file.size > 10 /\ file.size <= 25) \/ shouldUseWorker(file)
    \/ file.size >= 10

\* setProgress(5) and the choice of the first strategy
SelectStrategy ==
  /\ exPc = "select"
  /\ progress' = Append(progress, 5)
  /\ exPc' = IF preferWorker(exFile) THEN "worker" ELSE "direct"
  /\ UNCHANGED << cache, hits, misses, now, exOp, exFile, isExtracting, isUsingOCR,
                  exStarted, exPages, exOutcome, exBefore, speechVars, chunkVars, pageVars, workerVars, rangeVars, fcCall, blobVars >>

\* a strategy that caches its result has succeeded: fileCache.set,
\* setProgress(100), return content
SucceedMut(method, reports) ==
  /\ cache' = IF shouldCache(exFile)
              THEN cacheSet(cache, exFile, PdfText(exFile), method, now)
              ELSE cache
  /\ progress' = progress \o reports \o << 100 >>
  /\ exOutcome' = [ kind |-> "ok", content |-> PdfText(exFile) ]
  /\ exPc' = "direct"

Succeed(method, reports) ==
  /\ cache' = IF shouldCache(exFile)
              THEN cacheSet(cache, exFile, PdfText(exFile), method, now)
              ELSE cache
  /\ progress' = progress \o reports \o << 100 >>
  /\ exOutcome' = [ kind |-> "ok", content |-> PdfText(exFile) ]
  /\ exPc' = "finally"

\* the PROGRESS messages of processPdfInWorker for a document of n pages
\* processed chunkSize pages at a time
WorkerProgress(n, chunkSize) ==
  << 0, 10 >> \o [ b \in 1..Ceil(n, chunkSize) |->
                     Round(Min(b * chunkSize, n) * 80, n) + 10 ]

\* onProgress of the worker attempt: setProgress(Math.min(95, progress))
WorkerReports(n) ==
  LET p == WorkerProgress(n, 3) IN [ k \in 1..Len(p) |-> Min(95, p[k]) ]

\* processPdfWithWorker resolves after the last PROGRESS message, or rejects
\* after some of them (ERROR, worker error, failed file read)
WorkerAttempt ==
  /\ exPc = "worker"
  /\ exStarted' = Append(exStarted, "worker")
  /\ \E n \in NumPages :
       \/ /\ Succeed("worker", WorkerReports(n))
          /\ exPages' = exPages + n
       \/ /\ \E reports \in Prefixes(WorkerReports(n)) :
               progress' = progress \o reports
          /\ exPc' = "chunked"
          /\ UNCHANGED << cache, exOutcome, exPages >>
  /\ UNCHANGED << hits, misses, now, exOp, exFile, isExtracting, isUsingOCR, exBefore,
                  speechVars, chunkVars, pageVars, workerVars, rangeVars, fcCall, blobVars >>

\* MAX_FILE_SIZE of ChunkedFileProcessor in MB
MAX_FILE_SIZE == 500

\* onProgress of processPdfInChunks for a document of n pages, 10 pages at a
\* time, as extractFromPDF reports it: Math.min(90, progress * 0.8 + 10)
ChunkedReports(n) ==
  LET pageChunks == Ceil(n, 10)
  IN [ k \in 1..pageChunks |-> Min(90, ((((k * 100) \div pageChunks) * 8) \div 10) + 10) ]

\* ChunkedFileProcessor.processPdfInChunks resolves, or rejects before the
\* first page (file too large, failed read, failed load)
ChunkedAttempt ==
  /\ exPc = "chunked"
  /\ exStarted' = Append(exStarted, "chunked")
  /\ \/ /\ exFile.size <= MAX_FILE_SIZE
        /\ \E n \in NumPages :
             /\ Succeed("chunked", ChunkedReports(n) \o << 95 >>)
             /\ exPages' = exPages + n
     \/ /\ exPc' = "direct"
        /\ UNCHANGED << cache, exOutcome, exPages, progress >>
  /\ UNCHANGED << hits, misses, now, exOp, exFile, isExtracting, isUsingOCR, exBefore,
                  speechVars, chunkVars, pageVars, workerVars, rangeVars, fcCall, blobVars >>

\* the errors of the direct path: whether the value thrown is an Error, and
\* the words the handler looks for that its lowercased message includes
DirectErrors ==
  { [ isError |-> TRUE, words |-> w ] :
      w \in { {"worker"}, {"memory"}, {"timeout"}, {"corrupted"}, {"password"},
              {"attempts"}, {"corrupted", "memory"}, {} } }
    \cup { [ isError |-> FALSE, words |-> {} ] }

\* let errorMessage = 'Failed to extract text from PDF'
DefaultMessage == [ text |-> "Failed to extract text from PDF", detail |-> {} ]

\* the recovery pass is attempted for an Error whose message includes worker,
\* memory or timeout
NeedsRecoveryMut(err) ==
  err.isError /\ err.words \cap {"worker", "memory", "timeout", "corrupted"} # {}

NeedsRecovery(err) ==
  err.isError /\ err.words \cap {"worker", "memory", "timeout"} # {}

\* errorMessage after the recovery pass has failed with recoveryError
RecoveryFailedMessage(recoveryError) ==
  [ text |-> "Primary extraction failed, recovery also failed: ",
    detail |-> recoveryError ]

\* the message of the Error thrown by the handler: the chain of tests on the
\* message of err assigns errorMessage in every branch
ClassifiedMessage(err, errorMessage) ==
  LET Has(ws) == err.words \cap ws # {}
  IN IF ~err.isError THEN errorMessage
     ELSE IF Has({"invalid pdf", "corrupted", "not a pdf"})
       THEN [ text |-> "The file appears to be corrupted or is not a valid PDF",
              detail |-> {} ]
     ELSE IF Has({"password", "encrypted"})
       THEN [ text |-> "This PDF is password-protected. Please provide an unprotected version",
              detail |-> {} ]
     ELSE IF Has({"worker", "script", "loading failed"})
       THEN [ text |-> "PDF processing engine failed to load. Please refresh the page and try again",
              detail |-> {} ]
     ELSE IF Has({"network", "fetch", "connection"})
       THEN [ text |-> "Network error occurred. Please check your internet connection and try again",
              detail |-> {} ]
     ELSE IF Has({"attempts", "incompatible"})
       THEN [ text |-> "This PDF format is not supported or the file is corrupted",
              detail |-> {} ]
     ELSE IF Has({"no text content"})
       THEN [ text |-> "This PDF contains no extractable text. It may be image-based or scanned",
              detail |-> {} ]
     ELSE IF Has({"memory"})
       THEN [ text |-> "PDF processing failed due to memory constraints: ",
              detail |-> err.words ]
     ELSE IF Has({"timeout"})
       THEN [ text |-> "PDF processing timed out: ", detail |-> err.words ]
     ELSE [ text |-> "PDF processing failed: ", detail |-> err.words ]

\* const maxAttempts = 3
maxAttempts == 3

\* the direct path has thrown err after `attempts` calls of getDocument: the
\* handler starts the recovery pass, or throws the Error of the message
DirectFails(err, attempts) ==
  /\ exOutcome' = [ kind |-> "error", primary |-> err, attempts |-> attempts,
                    recovery |-> {},
                    message |-> IF NeedsRecovery(err) THEN DefaultMessage
                                ELSE ClassifiedMessage(err, DefaultMessage) ]
  /\ exPc' = IF NeedsRecovery(err) THEN "recovery" ELSE "finally"

\* the direct path: the loop of at most maxAttempts calls of getDocument,
\* which is left by the first call that returns a loading task, then
\* loadingTask.promise outside the loop; setProgress(20) when the document is
\* ready
DirectLoad ==
  /\ exPc = "direct"
  /\ exStarted' = Append(exStarted, "direct")
  /\ \E attempts \in 1..maxAttempts :
       \/ /\ progress' = Append(progress, 20)
          /\ exPc' = "pages"
          /\ UNCHANGED exOutcome
       \/ \E err \in DirectErrors :
            /\ DirectFails(err, attempts)
            /\ UNCHANGED progress
       \/ /\ attempts = maxAttempts
          /\ \E attemptError \in DirectErrors :
               /\ DirectFails(attemptError, attempts)
               /\ UNCHANGED progress
  /\ UNCHANGED << cache, hits, misses, now, exOp, exFile, isExtracting, isUsingOCR,
                  exPages, exBefore, speechVars, chunkVars, pageVars, workerVars, rangeVars, fcCall, blobVars >>

\* setProgress of the page loop of the direct path
DirectReports(n) == [ p \in 1..n |-> Min(95, 20 + (p * 75) \div n) ]

\* the page loop of the direct path; a page without text sets isUsingOCR
DirectPages ==
  /\ exPc = "pages"
  /\ \E n \in NumPages : \E usedOCR \in BOOLEAN :
       /\ progress' = progress \o DirectReports(n)
       /\ exPages' = exPages + n
       /\ isUsingOCR' = (isUsingOCR \/ usedOCR)
       /\ exStarted' = IF usedOCR THEN Append(exStarted, "ocr") ELSE exStarted
  /\ exPc' = "cleanup"
  /\ UNCHANGED << cache, hits, misses, now, exOp, exFile, isExtracting,
                  exOutcome, exBefore, speechVars, chunkVars, pageVars, workerVars, rangeVars, fcCall, blobVars >>

\* the OCR worker is terminated, setIsUsingOCR(false)
DirectCleanupMut ==
  /\ exPc = "cleanup"
  /\ exOutcome' = [ kind |-> "ok", content |-> PdfText(exFile) ]
  /\ exPc' = "finally"
  /\ UNCHANGED << cache, hits, misses, now, exOp, exFile, isExtracting, isUsingOCR,
                  progress, exStarted, exPages, exBefore, speechVars, chunkVars, pageVars, workerVars, rangeVars, fcCall, blobVars >>

\* the end of the direct path: the OCR worker is terminated,
\* setIsUsingOCR(false), and the result is returned as it is
DirectCleanup ==
  /\ exPc = "cleanup"
  /\ isUsingOCR' = FALSE
  /\ exOutcome' = [ kind |-> "ok", content |-> PdfText(exFile) ]
  /\ exPc' = "finally"
  /\ UNCHANGED << cache, hits, misses, now, exOp, exFile, isExtracting, progress,
                  exStarted, exPages, exBefore, speechVars, chunkVars, pageVars, workerVars, rangeVars, fcCall, blobVars >>

\* the recovery pass through the chunked processor; when it fails too,
\* errorMessage is set from recoveryError, the chain of tests on the message
\* of the first error follows, and the Error of errorMessage is thrown
RecoveryAttempt ==
  /\ exPc = "recovery"
  /\ exStarted' = Append(exStarted, "recovery")
  /\ \/ /\ exFile.size <= MAX_FILE_SIZE
        /\ \E n \in NumPages :
             /\ Succeed("chunked", ChunkedReports(n))
             /\ exPages' = exPages + n
     \/ /\ exPc' = "finally"
        /\ LET recoveryError == IF exFile.size > MAX_FILE_SIZE
                                THEN {"file too large"}
                                ELSE {"chunked processing failed"}
           IN exOutcome' =
                [ exOutcome EXCEPT
                    !.recovery = recoveryError,
                    !.message = ClassifiedMessage(exOutcome.primary,
                                                  RecoveryFailedMessage(recoveryError)) ]
        /\ UNCHANGED << cache, exPages, progress >>
  /\ UNCHANGED << hits, misses, now, exOp, exFile, isExtracting, isUsingOCR, exBefore,
                  speechVars, chunkVars, pageVars, workerVars, rangeVars, fcCall, blobVars >>

\* extractFromWebpage, extractFromImage, extractFromWord and
\* extractFromSpreadsheet: setIsExtracting(true) and the first setProgress
ExtractOther ==
  /\ exPc = "idle"
  /\ now < MaxNow
  /\ now' = now + 1
  /\ \E op \in OtherOps :
       /\ exOp' = op
       /\ progress' = IF op = "webpage" THEN << 10 >> ELSE << 0 >>
  /\ exFile' = NoFile
  /\ exBefore' = cache
  /\ exPc' = "other"
  /\ isExtracting' = TRUE
  /\ exStarted' = << >>
  /\ exPages' = 0
  /\ exOutcome' = NoOutcome
  /\ UNCHANGED << cache, hits, misses, isUsingOCR, speechVars, chunkVars, pageVars, workerVars, rangeVars, fcCall, blobVars >>

\* the values given to setProgress by a successful call of the operation
OtherReports(op) ==
  CASE op = "webpage" -> { << 70, 100 >>, << 70, 85, 100 >>, << 85, 100 >> }
    [] op = "image" -> { << 30 >> }
    [] OTHER -> { << 30, 60, 100 >> }

\* the operation returns, or throws after some of its reports
OtherSettle ==
  /\ exPc = "other"
  /\ \E full \in OtherReports(exOp) :
       \/ /\ progress' = progress \o full
          /\ exOutcome' = [ kind |-> "ok", content |-> << exOp >> ]
       \/ \E reports \in Prefixes(full) :
            /\ Len(reports) < Len(full)
            /\ progress' = progress \o reports
            /\ exOutcome' = [ kind |-> "error", message |-> exOp ]
  /\ exPc' = "finally"
  /\ UNCHANGED << cache, hits, misses, now, exOp, exFile, isExtracting, isUsingOCR,
                  exStarted, exPages, exBefore, speechVars, chunkVars, pageVars, workerVars, rangeVars, fcCall, blobVars >>

\* finally: setIsExtracting(false); setProgress(0)
ExtractFinally ==
  /\ exPc = "finally"
  /\ exPc' = "idle"
  /\ isExtracting' = FALSE
  /\ progress' = Append(progress, 0)
  /\ UNCHANGED << cache, hits, misses, now, exOp, exFile, isUsingOCR, exStarted,
                  exPages, exOutcome, exBefore, speechVars, chunkVars, pageVars, workerVars, rangeVars, fcCall, blobVars >>

ExtractNext ==
  \/ ExtractFromPDF
  \/ CacheLookup
  \/ SelectStrategy
  \/ WorkerAttempt
  \/ ChunkedAttempt
  \/ DirectLoad
  \/ DirectPages
  \/ DirectCleanup
  \/ RecoveryAttempt
  \/ ExtractOther
  \/ OtherSettle
  \/ ExtractFinally

----------------------------------------------------------------------------
(* The pages of a document: processPdfInChunks, processPdfInWorker and the
   page loop of the direct path *)

\* what the items of getTextContent joined by ' ' can be: nothing, a text that
\* is shorter than 5 characters once trimmed, a text of 5 characters
PageTexts == { << >>, << " ", "a", "b", "c", "d" >>, << "a", "b", "c", "d", "e" >> }

\* what OCR reads from the rendered page
OcrTexts == { << >>, << "x" >> }

\* instead of a text: the call throws
Throws == << "throw" >>

\* a page: getText is Throws when getPage or getTextContent throws, ocr is
\* Throws when the rendering or the recognition throws
Pages == [ getText : PageTexts \cup {Throws}, ocr : OcrTexts \cup {Throws} ]

\* what OCR gives matters only when the text of the page is short
PageKinds ==
  { pg \in Pages :
      (pg.getText = Throws \/ Len(Trim(pg.getText)) >= 5) => pg.ocr = Throws }

RECURSIVE Docs(_)
\* the documents of 1 to n pages
Docs(n) ==
  IF n = 0 THEN { }
  ELSE LET shorter == Docs(n - 1)
       IN { << pg >> : pg \in PageKinds }
            \cup shorter
            \cup { Append(d, pg) : d \in { x \in shorter : Len(x) = n - 1 },
                                   pg \in PageKinds }

Placeholder == "[Content could not be extracted]"

\* `\n\n--- Page ${pageNum} ---\n${pageText}` and its (OCR) and (Error) forms
Block(pageNum, marker, body) == [ page |-> pageNum, marker |-> marker, body |-> body ]

\* the page routine of processPdfPageRange
chunkedPage(pageNum, pg) ==
  IF pg.getText = Throws
  THEN Block(pageNum, "Error", Placeholder)
  ELSE Block(pageNum, "", pg.getText)

\* the page routine of processPdfInWorker (extractImages is not set)
workerPageMut(pageNum, pg) ==
  IF pg.getText = Throws
  THEN Block(pageNum, "", << >>)
  ELSE Block(pageNum, "", Trim(pg.getText))

workerPage(pageNum, pg) ==
  IF pg.getText = Throws
  THEN Block(pageNum, "Error", Placeholder)
  ELSE Block(pageNum, "", Trim(pg.getText))

\* the body of the page loop of the direct path
directPage(pageNum, pg) ==
  IF pg.getText = Throws
  THEN Block(pageNum, "Error", Placeholder)
  ELSE LET pageText == Trim(pg.getText)
           ocrText == IF pg.ocr = Throws THEN << >> ELSE Trim(pg.ocr)
       IN IF pageText = << >> \/ Len(pageText) < 5
          THEN IF ocrText # << >> /\ Len(ocrText) > 0
               THEN Block(pageNum, "OCR", ocrText)
               ELSE Block(pageNum, "Error", Placeholder)
          ELSE Block(pageNum, "", pageText)

PageBlock(strategy, pageNum, pg) ==
  CASE strategy = "chunked" -> chunkedPage(pageNum, pg)
    [] strategy = "worker" -> workerPage(pageNum, pg)
    [] OTHER -> directPage(pageNum, pg)

\* the pages processed at a time
BatchSize(strategy) ==
  CASE strategy = "chunked" -> Max(1, PagesPerChunk)
    [] strategy = "worker" -> WorkerChunkSize
    [] OTHER -> 1

\* totalPages
TotalPages(strategy, doc) ==
  IF strategy = "worker" THEN Min(Len(doc), WorkerMaxPages) ELSE Len(doc)

\* the result of page p
ResultOf(results, p) ==
  results[CHOOSE i \in 1..Len(results) : results[i].page = p]

\* results.join(''): the results in the order of the promises, which is the
\* order of the pages
JoinResultsMut(results, startPage, endPage) == results

JoinResults(results, startPage, endPage) ==
  [ i \in 1..(endPage - startPage + 1) |-> ResultOf(results, startPage + i - 1) ]

RECURSIVE Flatten(_)
\* contentChunks.join('')
Flatten(chunks) == IF chunks = << >> THEN << >> ELSE Head(chunks) \o Flatten(Tail(chunks))

\* a call with a file and its document
PagesStart ==
  /\ pgPc = "idle"
  /\ pgOut = NoOutcome
  /\ \E strategy \in {"chunked", "worker", "direct"} :
       /\ pgStrategy' = strategy
       /\ pgSize' \in IF strategy = "chunked" THEN {8, 600} ELSE {8}
       /\ pgDoc' \in Docs(MaxDocPages)
       /\ pgPc' = IF strategy = "chunked" THEN "validate" ELSE "load"
  /\ UNCHANGED << pgNext, pgPending, pgResults, pgChunks, pgEffects, pgOut,
                  speechVars, chunkVars, extractVars, workerVars, rangeVars, fcCall, blobVars >>

\* processPdfInChunks: the size is checked after the bytes are read
ValidateSizeMut ==
  /\ pgPc = "validate"
  /\ pgPc' = "read"
  /\ UNCHANGED << pgStrategy, pgSize, pgDoc, pgNext, pgPending, pgResults, pgChunks,
                  pgEffects, pgOut, speechVars, chunkVars, extractVars, workerVars, rangeVars, fcCall, blobVars >>

\* processPdfInChunks: if (file.size > this.MAX_FILE_SIZE) throw
ValidateSize ==
  /\ pgPc = "validate"
  /\ IF pgSize > MAX_FILE_SIZE
     THEN /\ pgOut' = [ kind |-> "error", message |-> "File too large" ]
          /\ pgPc' = "done"
     ELSE /\ pgPc' = "read"
          /\ UNCHANGED pgOut
  /\ UNCHANGED << pgStrategy, pgSize, pgDoc, pgNext, pgPending, pgResults, pgChunks,
                  pgEffects, speechVars, chunkVars, extractVars, workerVars, rangeVars, fcCall, blobVars >>

\* processPdfInChunks: readFileAsArrayBuffer
ReadBytes ==
  /\ pgPc = "read"
  /\ pgEffects' = Append(pgEffects, << "read" >>)
  /\ \/ /\ pgPc' = "load"
        /\ UNCHANGED pgOut
     \/ /\ pgPc' = "done"
        /\ pgOut' = [ kind |-> "error", message |-> "Chunked processing failed" ]
  /\ UNCHANGED << pgStrategy, pgSize, pgDoc, pgNext, pgPending, pgResults, pgChunks,
                  speechVars, chunkVars, extractVars, workerVars, rangeVars, fcCall, blobVars >>

\* getDocument(...).promise
LoadDocument ==
  /\ pgPc = "load"
  /\ pgEffects' = Append(pgEffects, << "load" >>)
  /\ \/ /\ pgPc' = "batch"
        /\ UNCHANGED pgOut
     \/ /\ pgPc' = "done"
        /\ pgOut' = [ kind |-> "error", message |-> "load" ]
  /\ UNCHANGED << pgStrategy, pgSize, pgDoc, pgNext, pgPending, pgResults, pgChunks,
                  speechVars, chunkVars, extractVars, workerVars, rangeVars, fcCall, blobVars >>

\* the next batch of pages is started, or the blocks are joined and returned
StartBatch ==
  /\ pgPc = "batch"
  /\ LET totalPages == TotalPages(pgStrategy, pgDoc)
         endPage == Min(pgNext + BatchSize(pgStrategy) - 1, totalPages)
     IN IF pgNext <= totalPages
        THEN /\ pgPending' = pgNext..endPage
             /\ pgResults' = << >>
             /\ pgPc' = "pages"
             /\ UNCHANGED << pgOut >>
        ELSE /\ pgOut' = [ kind |-> "ok", content |-> Flatten(pgChunks) ]
             /\ pgPc' = "done"
             /\ UNCHANGED << pgPending, pgResults >>
  /\ UNCHANGED << pgStrategy, pgSize, pgDoc, pgNext, pgChunks, pgEffects,
                  speechVars, chunkVars, extractVars, workerVars, rangeVars, fcCall, blobVars >>

\* one of the pages of the batch settles with its block
PageSettles ==
  /\ pgPc = "pages"
  /\ \E p \in pgPending :
       /\ pgPending' = pgPending \ {p}
       /\ pgResults' = Append(pgResults, PageBlock(pgStrategy, p, pgDoc[p]))
       /\ pgEffects' = Append(pgEffects, << "page", p >>)
  /\ UNCHANGED << pgPc, pgStrategy, pgSize, pgDoc, pgNext, pgChunks, pgOut,
                  speechVars, chunkVars, extractVars, workerVars, rangeVars, fcCall, blobVars >>

\* Promise.all has resolved: the results are joined and pushed, the callbacks
\* are called
JoinBatch ==
  /\ pgPc = "pages"
  /\ pgPending = {}
  /\ LET endPage == pgNext + Len(pgResults) - 1
     IN /\ pgChunks' = Append(pgChunks, JoinResults(pgResults, pgNext, endPage))
        /\ pgNext' = endPage + 1
  /\ pgEffects' = IF pgStrategy = "chunked"
                  THEN pgEffects \o << << "onProgress" >>, << "onChunkProcessed" >> >>
                  ELSE pgEffects
  /\ pgPc' = "batch"
  /\ UNCHANGED << pgStrategy, pgSize, pgDoc, pgPending, pgResults, pgOut,
                  speechVars, chunkVars, extractVars, workerVars, rangeVars, fcCall, blobVars >>

PagesNext ==
  \/ PagesStart
  \/ ValidateSize
  \/ ReadBytes
  \/ LoadDocument
  \/ StartBatch
  \/ PageSettles
  \/ JoinBatch

----------------------------------------------------------------------------
(* useWorkerFileProcessor and the worker *)

\* the id the worker gives to the ERROR message of self.onerror
RuntimeId == 0

Response(type, id) == [ type |-> type, id |-> id ]

\* request.reject for every pending request, pendingRequests.current.clear()
RejectAll ==
  /\ rqState' = [ id \in 1..MaxRequests |->
                    IF id \in pendingRequests THEN "rejected" ELSE rqState[id] ]
  /\ pendingRequests' = {}

\* self.postMessage of the worker
Post(responses) ==
  /\ wkOutbox' = wkOutbox \o responses
  /\ wkSent' = [ id \in 1..MaxRequests |->
                   wkSent[id] \o SelectSeq(responses, LAMBDA m : m.id = id) ]

\* processPdfWithWorker: initializeWorker returns the worker of workerRef or
\* creates one, or throws; the request is registered and the file is read
ProcessPdfWithWorker ==
  LET requestId == Cardinality({ id \in 1..MaxRequests : rqState[id] # "unused" }) + 1
  IN /\ requestId <= MaxRequests
     /\ \/ /\ workerRef # 0
           /\ pendingRequests' = pendingRequests \cup {requestId}
           /\ rqState' = [ rqState EXCEPT ![requestId] = "pending" ]
           /\ rqReading' = rqReading \cup {[ id |-> requestId, worker |-> workerRef ]}
           /\ UNCHANGED << workerRef, wkCreated, wkState >>
        \/ /\ workerRef = 0
           /\ wkCreated' = wkCreated + 1
           /\ workerRef' = wkCreated + 1
           /\ wkState' = "loading"
           /\ pendingRequests' = pendingRequests \cup {requestId}
           /\ rqState' = [ rqState EXCEPT ![requestId] = "pending" ]
           /\ rqReading' = rqReading \cup {[ id |-> requestId, worker |-> wkCreated + 1 ]}
        \/ /\ workerRef = 0
           /\ rqState' = [ rqState EXCEPT ![requestId] = "rejected" ]
           /\ UNCHANGED << workerRef, wkCreated, wkState, pendingRequests, rqReading >>
     /\ UNCHANGED << wkInbox, wkJobs, wkOutbox, wkSent, rqDelivered, wkErrors,
                     speechVars, chunkVars, extractVars, pageVars, rangeVars, fcCall, blobVars >>

\* file.arrayBuffer() settles: the message is posted to the worker of the
\* call, or the request is removed and rejected
FileRead ==
  /\ \E r \in rqReading :
       /\ rqReading' = rqReading \ {r}
       /\ \/ /\ wkInbox' = IF r.worker = workerRef THEN Append(wkInbox, r.id) ELSE wkInbox
             /\ UNCHANGED << pendingRequests, rqState >>
          \/ /\ pendingRequests' = pendingRequests \ {r.id}
             /\ rqState' = [ rqState EXCEPT ![r.id] =
                               IF @ = "pending" THEN "rejected" ELSE @ ]
             /\ UNCHANGED wkInbox
  /\ UNCHANGED << workerRef, wkCreated, wkState, wkJobs, wkOutbox, wkSent,
                  rqDelivered, wkErrors, speechVars, chunkVars, extractVars, pageVars, rangeVars, fcCall, blobVars >>

\* the script of the worker has been loaded and run
WorkerLoads ==
  /\ wkState = "loading"
  /\ wkState' = "alive"
  /\ UNCHANGED << workerRef, wkCreated, pendingRequests, rqState, rqReading, wkInbox,
                  wkJobs, wkOutbox, wkSent, rqDelivered, wkErrors,
                  speechVars, chunkVars, extractVars, pageVars, rangeVars, fcCall, blobVars >>

\* the script of the worker cannot be loaded: the error event reaches
\* workerRef.current.onerror, and the worker takes no message
WorkerLoadFails ==
  /\ wkState = "loading"
  /\ wkErrors < MaxWorkerErrors
  /\ wkErrors' = wkErrors + 1
  /\ wkState' = "dead"
  /\ RejectAll
  /\ UNCHANGED << workerRef, wkCreated, rqReading, wkInbox, wkJobs, wkOutbox, wkSent,
                  rqDelivered, speechVars, chunkVars, extractVars, pageVars, rangeVars, fcCall, blobVars >>

\* self.onmessage: processPdfInWorker starts and posts its first PROGRESS
WorkerTakes ==
  /\ wkState = "alive"
  /\ wkInbox # << >>
  /\ wkInbox' = Tail(wkInbox)
  /\ wkJobs' = wkJobs \cup {Head(wkInbox)}
  /\ Post(<< Response("PROGRESS", Head(wkInbox)) >>)
  /\ UNCHANGED << workerRef, wkCreated, wkState, pendingRequests, rqState, rqReading,
                  rqDelivered, wkErrors, speechVars, chunkVars, extractVars, pageVars, rangeVars, fcCall, blobVars >>

\* processPdfInWorker ends: CHUNK_PROCESSED, PROGRESS and SUCCESS, or ERROR
\* from its catch block
WorkerFinishes ==
  /\ wkState = "alive"
  /\ \E id \in wkJobs :
       /\ wkJobs' = wkJobs \ {id}
       /\ \/ Post(<< Response("CHUNK_PROCESSED", id), Response("PROGRESS", id),
                     Response("SUCCESS", id) >>)
          \/ Post(<< Response("ERROR", id) >>)
  /\ UNCHANGED << workerRef, wkCreated, wkState, pendingRequests, rqState, rqReading,
                  wkInbox, rqDelivered, wkErrors, speechVars, chunkVars, extractVars,
                  pageVars, rangeVars, fcCall, blobVars >>

\* an error that nothing catches in the worker: self.onerror posts ERROR
\* with the id 'runtime'; the handler does not cancel the event, which reaches
\* workerRef.current.onerror
WorkerRuntimeError ==
  /\ wkState = "alive"
  /\ wkErrors < MaxWorkerErrors
  /\ wkErrors' = wkErrors + 1
  /\ Post(<< Response("ERROR", RuntimeId) >>)
  /\ RejectAll
  /\ UNCHANGED << workerRef, wkCreated, wkState, rqReading, wkInbox, wkJobs,
                  rqDelivered, speechVars, chunkVars, extractVars, pageVars, rangeVars, fcCall, blobVars >>

\* workerRef.current.onmessage
MainOnMessage ==
  /\ wkOutbox # << >>
  /\ wkOutbox' = Tail(wkOutbox)
  /\ LET type == Head(wkOutbox).type
         id == Head(wkOutbox).id
     IN IF id \in pendingRequests
        THEN /\ rqDelivered' = [ rqDelivered EXCEPT ![id] = Append(@, Head(wkOutbox)) ]
             /\ CASE type = "SUCCESS" ->
                       /\ pendingRequests' = pendingRequests \ {id}
                       /\ rqState' = [ rqState EXCEPT ![id] = "resolved" ]
                  [] type = "ERROR" ->
                       /\ pendingRequests' = pendingRequests \ {id}
                       /\ rqState' = [ rqState EXCEPT ![id] = "rejected" ]
                  [] OTHER -> UNCHANGED << pendingRequests, rqState >>
        ELSE UNCHANGED << pendingRequests, rqState, rqDelivered >>
  /\ UNCHANGED << workerRef, wkCreated, wkState, rqReading, wkInbox, wkJobs, wkSent,
                  wkErrors, speechVars, chunkVars, extractVars, pageVars, rangeVars, fcCall, blobVars >>

\* terminateWorker
TerminateWorker ==
  /\ workerRef # 0 \/ pendingRequests # {}
  /\ workerRef' = 0
  /\ wkState' = "none"
  /\ wkInbox' = << >>
  /\ wkJobs' = {}
  /\ wkOutbox' = << >>
  /\ RejectAll
  /\ UNCHANGED << wkCreated, rqReading, wkSent, rqDelivered, wkErrors,
                  speechVars, chunkVars, extractVars, pageVars, rangeVars, fcCall, blobVars >>

WorkerNext ==
  \/ ProcessPdfWithWorker
  \/ FileRead
  \/ WorkerLoads
  \/ WorkerLoadFails
  \/ WorkerTakes
  \/ WorkerFinishes
  \/ WorkerRuntimeError
  \/ MainOnMessage
  \/ TerminateWorker

\* what the platform and the worker do in the end: a promise of
\* file.arrayBuffer() settles, a worker is loaded or fails to load, a worker
\* that is alive takes its messages and ends its jobs, a posted response is
\* delivered
WorkerFairness ==
  /\ WF_vars(FileRead)
  /\ WF_vars(WorkerLoads \/ WorkerLoadFails)
  /\ WF_vars(WorkerTakes)
  /\ WF_vars(WorkerFinishes)
  /\ WF_vars(MainOnMessage)

----------------------------------------------------------------------------
(* extractContentFromPageRange and stripPageMarkers: a text is a sequence of
   characters and of page markers, a marker being one element *)

MarkerKinds == {"", " (Error)", " (OCR)"}

\* what /--- Page (\d+)(?: \((?:Error|OCR)\))? ---/ matches
MarkerText(pageNum, kind) == "--- Page " \o ToString(pageNum) \o kind \o " ---"

IsMarker(c) == \E n \in 1..MaxPageNum : \E kind \in MarkerKinds : c = MarkerText(n, kind)

\* parseInt(match[1])
MarkerPage(c) ==
  CHOOSE n \in 1..MaxPageNum : \E kind \in MarkerKinds : c = MarkerText(n, kind)

\* the bodies of the pages of the texts
Bodies == { << >>, << " ", "a", "\n" >>, << "a", " ", "b" >> }

PageBlocks == [ page : 1..MaxPageNum, kind : MarkerKinds, body : Bodies ]

RECURSIVE BlockLists(_)
\* the lists of at most n page blocks
BlockLists(n) ==
  IF n = 0 THEN { << >> }
  ELSE LET shorter == BlockLists(n - 1)
       IN shorter \cup { Append(bs, b) : bs \in { x \in shorter : Len(x) = n - 1 },
                                         b \in PageBlocks }

RECURSIVE Render(_)
\* the text of the blocks: `\n\n--- Page ${pageNum} ---\n${pageText}` each
Render(blocks) ==
  IF blocks = << >> THEN << >>
  ELSE << "\n", "\n", MarkerText(Head(blocks).page, Head(blocks).kind), "\n" >>
         \o Head(blocks).body \o Render(Tail(blocks))

RECURSIVE JoinWith(_, _)
\* Array.prototype.join(separator)
JoinWith(ss, separator) ==
  IF ss = << >> THEN << >>
  ELSE IF Len(ss) = 1 THEN Head(ss)
       ELSE Head(ss) \o separator \o JoinWith(Tail(ss), separator)

RECURSIVE ParsePages(_, _, _, _)
\* the loop over the matches of the marker: i is the element looked at,
\* lastIndex the first element after the last marker (both from 1)
ParsePages(content, i, pages, lastIndex) ==
  IF i > Len(content)
  THEN IF pages # << >>
       THEN [ pages EXCEPT ![Len(pages)].content =
                Trim(SubSeq(content, lastIndex, Len(content))) ]
       ELSE pages
  ELSE IF IsMarker(content[i])
       THEN LET closed == IF pages # << >>
                          THEN [ pages EXCEPT ![Len(pages)].content =
                                   Trim(SubSeq(content, lastIndex, i - 1)) ]
                          ELSE pages
            IN ParsePages(content, i + 1,
                          Append(closed, [ pageNum |-> MarkerPage(content[i]),
                                           content |-> << >> ]),
                          i + 1)
       ELSE ParsePages(content, i + 1, pages, lastIndex)

\* pages.filter(page => page.pageNum >= startPage && page.pageNum < endPage)
SelectPagesMut(pages, startPage, endPage) ==
  SelectSeq(pages, LAMBDA page : page.pageNum >= startPage /\ page.pageNum < endPage)

\* pages.filter(page => page.pageNum >= startPage && page.pageNum <= endPage)
SelectPages(pages, startPage, endPage) ==
  SelectSeq(pages, LAMBDA page : page.pageNum >= startPage /\ page.pageNum <= endPage)

extractContentFromPageRange(content, startPage, endPage) ==
  IF content = << >> THEN << >>
  ELSE LET pages == ParsePages(content, 1, << >>, 1)
           selectedPages == SelectPages(pages, startPage, endPage)
       IN JoinWith([ k \in 1..Len(selectedPages) |-> selectedPages[k].content ],
                   << "\n", "\n" >>)

RECURSIVE stripPageMarkers(_)
\* text.replace(/--- Page \d+(?: \((?:Error|OCR)\))? ---\s*/g, '')
stripPageMarkers(t) ==
  IF t = << >> THEN << >>
  ELSE IF IsMarker(Head(t))
       THEN stripPageMarkers(TrimStart(Tail(t)))
       ELSE << Head(t) >> \o stripPageMarkers(Tail(t))

RangeInit ==
  /\ rgBlocks \in BlockLists(MaxBlocks)
  /\ rgStart \in 1..MaxPageNum
  /\ rgEnd \in 1..MaxPageNum
  /\ rgResult = << >>

\* handlePlay with a page selection: the range is extracted and the markers
\* are stripped
ExtractRange ==
  /\ rgResult = << >>
  /\ rgResult' = << stripPageMarkers(
                      extractContentFromPageRange(Render(rgBlocks), rgStart, rgEnd)) >>
  /\ UNCHANGED << rgBlocks, rgStart, rgEnd, speechVars, chunkVars, extractVars,
                  pageVars, workerVars, fcCall, blobVars >>

RangeNext == ExtractRange

----------------------------------------------------------------------------
(* BlobUrlManager and the blob URL effect of AppContent *)

\* fileData of a content source: null, a string that is no blob URL, or one
\* of the blob URLs 1..MaxBlobUrls
NoUrl == 0
OtherUrl == -1
BlobUrls == 1..MaxBlobUrls

isBlobUrl(url) == url # NoUrl /\ url \in BlobUrls

register(r, url) ==
  IF ~isBlobUrl(url) THEN r ELSE [ r EXCEPT ![url] = r[url] + 1 ]

retain(r, url) == register(r, url)

\* the map and the revoked URLs after release(url)
release(r, rv, url) ==
  IF ~isBlobUrl(url) THEN [ refs |-> r, revoked |-> rv ]
  ELSE IF r[url] = 0 THEN [ refs |-> r, revoked |-> rv ]
  ELSE IF r[url] <= 1
       THEN [ refs |-> [ r EXCEPT ![url] = 0 ], revoked |-> rv \cup { url } ]
       ELSE [ refs |-> [ r EXCEPT ![url] = r[url] - 1 ], revoked |-> rv ]

revokeAll(r, rv) ==
  [ refs |-> [ u \in BlobUrls |-> 0 ],
    revoked |-> rv \cup { u \in BlobUrls : r[u] > 0 } ]

BlobInit ==
  /\ refs = [ u \in BlobUrls |-> 0 ] /\ revoked = {} /\ blCreated = 0
  /\ blExtracting = {} /\ currentContent = NoUrl /\ prevBlobUrlRef = NoUrl
  /\ blEffect = FALSE /\ blMounted = TRUE /\ blReplaced = {}

NotBlob ==
  UNCHANGED << speechVars, chunkVars, extractVars, pageVars, workerVars,
               rangeVars, fcCall >>

\* an extraction makes the object URL of its file and registers it
ExtractionRegisters ==
  /\ blMounted /\ blCreated < MaxBlobUrls
  /\ blCreated' = blCreated + 1
  /\ refs' = register(refs, blCreated + 1)
  /\ blExtracting' = blExtracting \cup { blCreated + 1 }
  /\ UNCHANGED << revoked, currentContent, prevBlobUrlRef, blEffect, blMounted,
                  blReplaced >>
  /\ NotBlob

\* the extraction throws after the register: no content source is returned
ExtractionFails ==
  /\ blMounted
  /\ \E url \in blExtracting : blExtracting' = blExtracting \ { url }
  /\ UNCHANGED << refs, revoked, blCreated, currentContent, prevBlobUrlRef,
                  blEffect, blMounted, blReplaced >>
  /\ NotBlob

\* handleContentExtracted with the content source of an extraction, or with
\* one that has no blob URL
handleContentExtracted ==
  /\ blMounted /\ ~blEffect
  /\ \E fileData \in blExtracting \cup { NoUrl, OtherUrl } :
       /\ currentContent' = fileData
       /\ blExtracting' = blExtracting \ { fileData }
  /\ blEffect' = TRUE
  /\ UNCHANGED << refs, revoked, blCreated, prevBlobUrlRef, blMounted, blReplaced >>
  /\ NotBlob

\* the effect on [currentContent]: release the replaced URL, retain the new one
ContentEffect ==
  /\ blMounted /\ blEffect
  /\ LET prevUrl == prevBlobUrlRef
         nextUrl == currentContent
         releases == prevUrl # NoUrl /\ (nextUrl = NoUrl \/ prevUrl # nextUrl)
                       /\ isBlobUrl(prevUrl)
         released == IF releases THEN release(refs, revoked, prevUrl)
                     ELSE [ refs |-> refs, revoked |-> revoked ]
     IN  /\ revoked' = released.revoked
         /\ blReplaced' = IF releases THEN blReplaced \cup { prevUrl } ELSE blReplaced
         /\ IF nextUrl # NoUrl /\ isBlobUrl(nextUrl)
            THEN /\ refs' = retain(released.refs, nextUrl)
                 /\ prevBlobUrlRef' = nextUrl
            ELSE /\ refs' = released.refs
                 /\ prevBlobUrlRef' = NoUrl
  /\ blEffect' = FALSE
  /\ UNCHANGED << blCreated, blExtracting, currentContent, blMounted >>
  /\ NotBlob

\* the cleanup of the effect on []: revokeAll on unmount
AppUnmount ==
  /\ blMounted
  /\ blMounted' = FALSE
  /\ blEffect' = FALSE
  /\ refs' = revokeAll(refs, revoked).refs
  /\ revoked' = revokeAll(refs, revoked).revoked
  /\ UNCHANGED << blCreated, blExtracting, currentContent, prevBlobUrlRef,
                  blReplaced >>
  /\ NotBlob

BlobNext ==
  \/ ExtractionRegisters
  \/ ExtractionFails
  \/ handleContentExtracted
  \/ ContentEffect
  \/ AppUnmount

----------------------------------------------------------------------------
(* Specifications *)

Init ==
  SpeechInit /\ ChunkIdle /\ ExtractIdle /\ PagesIdle /\ WorkerIdle /\ RangeIdle
    /\ CacheCallIdle /\ BlobInit

Next == SpeechNext

\* the playback engine with the calls of the user and the callbacks of the
\* speech engine in every order
Spec == Init /\ [][Next]_vars

\* one uninterrupted playback
SpecPlayback == Init /\ [][PlaybackNext]_vars

\* chunkTextForSpeech applied to every text and maximum of the bounds
InitChunk ==
  SpeechInit /\ ChunkInit /\ ExtractIdle /\ PagesIdle /\ WorkerIdle /\ RangeIdle
    /\ CacheCallIdle /\ BlobInit

SpecChunk == InitChunk /\ [][ChunkNext]_vars

\* extractFromPDF and the cache
SpecExtract == Init /\ [][ExtractNext]_vars

\* the calls of FileCache.set and FileCache.get with every file and content of
\* the bounds, and the periodic cleanup
SpecCache == Init /\ [][CacheNext]_vars

InitRange ==
  SpeechInit /\ ChunkIdle /\ ExtractIdle /\ PagesIdle /\ WorkerIdle /\ RangeInit
    /\ CacheCallIdle /\ BlobInit

\* extractContentFromPageRange and stripPageMarkers applied to every text and
\* range of the bounds
SpecRange == InitRange /\ [][RangeNext]_vars

\* the requests of processPdfWithWorker and the worker
SpecWorker == Init /\ [][WorkerNext]_vars /\ WorkerFairness

\* one document read page by page by each of the three strategies
SpecPages == Init /\ [][PagesNext]_vars

\* the blob URLs of the content sources from their registration to unmount
SpecBlob == Init /\ [][BlobNext]_vars

----------------------------------------------------------------------------
(* Properties *)

UserCalled(name) == calls # << >> /\ calls[1] = name

Count(seq, x) == Cardinality({ i \in 1..Len(seq) : seq[i] = x })

\* nothing is spoken, queued or scheduled, and no callback is in flight
Quiescent == engineQueue = << >> /\ interChunkTimers = 0 /\ staleUtterances = << >>

\* C1: after stopReading, and until the next call of the user, the position
\* is 0, the session is neither playing nor paused and the engine has no
\* utterance, whatever callbacks and timers of the cancelled utterance arrive
C1_StopResets ==
  stopped => /\ session.currentPosition = 0
             /\ ~session.isPlaying
             /\ ~session.isPaused
             /\ engineQueue = << >>

\* C2: the engine never holds two utterances: a chunk is handed to it only
\* when the previous one has ended or has been cancelled
C2_OneUtteranceInFlight == Len(engineQueue) <= 1

\* C3: when playback was started and neither a pause, a stop nor a failure of
\* the engine followed, and nothing is left to happen, the session is idle
\* with the position at totalCharacters
C3_PlaybackCompletes ==
  (sinceStart = "running" /\ Quiescent)
    => /\ ~session.isPlaying
       /\ ~session.isPaused
       /\ session.currentPosition = session.totalCharacters

\* C4: isPlaying and isPaused are never both true
C4_PlayingPausedExclusive == ~(session.isPlaying /\ session.isPaused)

C4_Witness == UserCalled("pauseReading") /\ prev.isPlaying /\ session.isPaused

\* C5: during one uninterrupted playback the position never decreases from
\* one step to the next, the completion at totalCharacters included
C5_PositionMonotonic ==
  [][session'.currentPosition >= session.currentPosition]_vars

C5_Witness ==
  /\ sinceStart = "running"
  /\ Len(chunksRef) >= 2
  /\ currentChunkIndexRef = Len(chunksRef)
  /\ ~session.isPlaying
  /\ session.currentPosition = session.totalCharacters

C7_RepeatedCallKeepsSession ==
  (\/ UserCalled("pauseReading") /\ prev.isPaused
   \/ UserCalled("resumeReading") /\ prev.isPlaying)
    => /\ session.currentPosition = prev.currentPosition
       /\ session.isPlaying = prev.isPlaying
       /\ session.isPaused = prev.isPaused

C7_Witness ==
  /\ calls = << "pauseReading", "pause" >>
  /\ prev.isPaused
  /\ prev.currentPosition > 0

\* a character at which chunkTextForSpeech may cut
IsBreak(c) == c \in {".", "?", "!", " "}

\* the text has a run of more than n characters without a break
HasUnbreakableRun(t, n) ==
  \E i \in 1..Len(t) :
    /\ i + n <= Len(t)
    /\ \A j \in i..(i + n) : ~IsBreak(t[j])

\* C8: no chunk is longer than the maximum, unless the text has an
\* unbreakable run longer than the maximum
C8_ChunksWithinMax ==
  chunkResult # << >>
    => \/ \A k \in 1..Len(chunkResult[1]) : Len(chunkResult[1][k]) <= maxSize
       \/ HasUnbreakableRun(text, maxSize)

RECURSIVE NonWhitespace(_)
NonWhitespace(t) ==
  IF t = << >> THEN << >>
  ELSE IF IsWhitespace(Head(t)) THEN NonWhitespace(Tail(t))
       ELSE << Head(t) >> \o NonWhitespace(Tail(t))

RECURSIVE IsSubsequence(_, _)
\* a is b with some characters left out
IsSubsequence(a, b) ==
  IF a = << >> THEN TRUE
  ELSE IF b = << >> THEN FALSE
       ELSE IF Head(a) = Head(b) THEN IsSubsequence(Tail(a), Tail(b))
            ELSE IsSubsequence(a, Tail(b))

\* C9: the chunks joined in order are the text without some of its
\* whitespace: the characters that are not whitespace are the same, in the
\* same order, and nothing but whitespace is missing
C9_ChunksPreserveText ==
  chunkResult # << >>
    => /\ NonWhitespace(Join(chunkResult[1])) = NonWhitespace(text)
       /\ IsSubsequence(Join(chunkResult[1]), text)

C9_Witness ==
  /\ chunkResult # << >>
  /\ Len(chunkResult[1]) >= 2
  /\ Len(Join(chunkResult[1])) < Len(text)
  /\ \E k \in 1..Len(chunkResult[1]) : \E j \in 1..Len(chunkResult[1][k]) :
       IsWhitespace(chunkResult[1][k][j])

\* the entry of the file of the call in the cache as it was at the call
HitPosition ==
  Position(exBefore, generateCacheKey(exFile.name, exFile.size, generateFileHash(exFile)))

\* C10: a call for a file whose key is in the cache returns the cached
\* content, starts no strategy, accesses no page, and changes the cache in
\* accessCount and lastAccessed of that entry only
C10_CacheHit ==
  (HitPosition # 0 /\ exPc \in {"finally", "idle"})
    => /\ exOutcome = [ kind |-> "ok", content |-> exBefore[HitPosition].content ]
       /\ exStarted = << >>
       /\ exPages = 0
       /\ cache = [ exBefore EXCEPT ![HitPosition].accessCount = @ + 1,
                                    ![HitPosition].lastAccessed = now ]

C10_Witness ==
  /\ HitPosition # 0
  /\ exPc = "idle"
  /\ exOutcome.kind = "ok"
  /\ Len(cache) >= 2
  /\ cache[HitPosition].lastAccessed > cache[HitPosition].timestamp

\* the call of extractFromPDF has produced its result or its error
PdfSettled == exOp = "pdf" /\ exPc \in {"finally", "idle"} /\ exOutcome.kind # "none"

\* the entry of the file of the call in the cache as it is now
EntryPosition ==
  Position(cache, generateCacheKey(exFile.name, exFile.size, generateFileHash(exFile)))

\* C11: after a successful extractFromPDF of a cacheable file the cache holds
\* an entry for the file with the returned content, whichever strategy
\* produced it; after a failed one the cache is as it was at the call
C11_CacheWriteBack ==
  PdfSettled
    => /\ (exOutcome.kind = "ok" /\ shouldCache(exFile))
            => (EntryPosition # 0 /\ cache[EntryPosition].content = exOutcome.content)
       /\ exOutcome.kind = "error" => cache = exBefore

\* C12: for a file larger than 50 MB no strategy is started and the call
\* fails
C12_OversizeRejected ==
  (exOp = "pdf" /\ exFile.size > 50)
    => /\ exStarted = << >>
       /\ PdfSettled => exOutcome.kind = "error"

\* C14: until the call settles, the values given to setProgress never
\* decrease from one to the next
C14_ProgressMonotonic ==
  (exOp = "pdf" /\ exPc # "idle")
    => \A i \in 1..(Len(progress) - 1) : progress[i] <= progress[i + 1]

\* C15: a call that returns a result has reported progress 100
C15_SuccessReaches100 ==
  (PdfSettled /\ exOutcome.kind = "ok")
    => \E i \in 1..Len(progress) : progress[i] = 100

\* C16: when an extract operation has settled isExtracting is false, after a
\* failure the progress is 0, and after extractFromPDF isUsingOCR is false
C16_SettledCleanup ==
  (exPc = "idle" /\ exOutcome.kind # "none")
    => /\ ~isExtracting
       /\ exOutcome.kind = "error" => progress[Len(progress)] = 0
       /\ exOp = "pdf" => ~isUsingOCR

C16_Witness ==
  /\ exPc = "idle"
  /\ exOp = "pdf"
  /\ exOutcome.kind = "ok"
  /\ \E i \in 1..Len(exStarted) : exStarted[i] = "ocr"
  /\ progress[Len(progress)] = 0
  /\ ~isExtracting /\ ~isUsingOCR

\* a page of the document has been accessed during the call
PageAccessed(p) == \E i \in 1..Len(pgEffects) : pgEffects[i] = << "page", p >>

\* C13: processPdfInChunks with a file larger than 500 MB fails with 'File
\* too large' and has read no bytes, loaded no document, accessed no page
\* and called no callback
C13_TooLargeRejectedFirst ==
  (pgStrategy = "chunked" /\ pgSize > MAX_FILE_SIZE)
    => /\ pgEffects = << >>
       /\ pgPc \in {"validate", "done"}
       /\ pgPc = "done" => pgOut = [ kind |-> "error", message |-> "File too large" ]

C13_Witness ==
  /\ pgStrategy = "chunked"
  /\ pgSize = 600
  /\ pgPc = "done"
  /\ pgOut.kind = "error"

\* the page fails: getPage or getTextContent throws, or, where the strategy
\* renders the page for OCR, the rendering or the recognition throws
PageFails(n) ==
  \/ pgDoc[n].getText = Throws
  \/ /\ pgStrategy = "direct"
     /\ Len(Trim(pgDoc[n].getText)) < 5
     /\ pgDoc[n].ocr = Throws

\* the result of the call has this block
HasBlock(b) == \E i \in 1..Len(pgOut.content) : pgOut.content[i] = b

\* C18: once a page has been accessed the call succeeds: a page that fails
\* gives the (Error) block with the placeholder, a page with a text of 5
\* characters or more gives its text
C18_PageFailureIsolated ==
  (pgPc = "done" /\ \E p \in 1..Len(pgDoc) : PageAccessed(p))
    => /\ pgOut.kind = "ok"
       /\ \A n \in 1..TotalPages(pgStrategy, pgDoc) :
            /\ PageFails(n) => HasBlock(Block(n, "Error", Placeholder))
            /\ (pgDoc[n].getText # Throws /\ Len(Trim(pgDoc[n].getText)) >= 5)
                 => HasBlock(Block(n, "", Trim(pgDoc[n].getText)))

C18_Witness ==
  /\ pgPc = "done"
  /\ pgStrategy = "worker"
  /\ pgOut.kind = "ok"
  /\ Len(pgDoc) >= 3
  /\ pgDoc[2].getText = Throws
  /\ pgDoc[1].getText # Throws /\ Len(pgDoc[1].getText) >= 5
  /\ pgDoc[3].getText # Throws /\ Len(pgDoc[3].getText) >= 5
  /\ PageAccessed(3)

\* pageText as the strategy computes it
PageTextOf(n) ==
  IF pgStrategy = "chunked" THEN pgDoc[n].getText ELSE Trim(pgDoc[n].getText)

\* C19: a page whose text is empty or shorter than 5 characters, and from
\* which OCR reads a text that is not empty, gives the (OCR) block with that
\* text, in each strategy
C19_ShortPagesUseOCR ==
  (pgPc = "done" /\ pgOut.kind = "ok")
    => \A n \in 1..TotalPages(pgStrategy, pgDoc) :
         ( /\ pgDoc[n].getText # Throws
           /\ Len(PageTextOf(n)) < 5
           /\ pgDoc[n].ocr # Throws
           /\ Trim(pgDoc[n].ocr) # << >> )
           => HasBlock(Block(n, "OCR", Trim(pgDoc[n].ocr)))

\* C20: the chunked processor and the worker return one block for each page
\* 1..P of a document of P pages within the page cap, in ascending order of
\* the pages
C20_BlocksInPageOrder ==
  ( /\ pgPc = "done" /\ pgOut.kind = "ok"
    /\ pgStrategy \in {"chunked", "worker"}
    /\ pgStrategy = "worker" => Len(pgDoc) <= WorkerMaxPages )
    => /\ Len(pgOut.content) = Len(pgDoc)
       /\ \A i \in 1..Len(pgOut.content) : pgOut.content[i].page = i

C20_Witness ==
  /\ pgPc = "done" /\ pgOut.kind = "ok"
  /\ pgStrategy = "worker"
  /\ Len(pgDoc) = 3
  /\ \E i, j \in 1..Len(pgEffects) :
       /\ i < j
       /\ pgEffects[i] = << "page", 2 >>
       /\ pgEffects[j] = << "page", 1 >>

\* C17: every request of processPdfWithWorker that is pending is resolved or
\* rejected in the end, and the callbacks of a request are handed only
\* responses that the worker posted with the id of the request
C17_RequestsSettle ==
  /\ [](\A id \in 1..MaxRequests :
          /\ IsSubsequence(rqDelivered[id], wkSent[id])
          /\ \A i \in 1..Len(rqDelivered[id]) : rqDelivered[id][i].id = id)
  /\ \A id \in 1..MaxRequests :
       (rqState[id] = "pending") ~> (rqState[id] \in {"resolved", "rejected"})

\* the blocks of the text whose page is in the range
BlocksInRange ==
  SelectSeq(rgBlocks, LAMBDA b : rgStart <= b.page /\ b.page <= rgEnd)

\* C21: the range extracted from a text of page blocks, with the markers
\* stripped, is the trimmed bodies of the blocks whose page is in the range,
\* in order, joined by a blank line, and has no marker
C21_RangeIsPageBodies ==
  rgResult # << >>
    => /\ rgResult[1] = JoinWith([ k \in 1..Len(BlocksInRange) |->
                                     Trim(BlocksInRange[k].body) ], << "\n", "\n" >>)
       /\ \A i \in 1..Len(rgResult[1]) : ~IsMarker(rgResult[1][i])

C21_Witness ==
  /\ rgResult # << >>
  /\ Len(rgBlocks) = 2
  /\ Len(BlocksInRange) = 1
  /\ rgBlocks[1].page > rgEnd
  /\ rgBlocks[2].kind = " (OCR)"
  /\ rgBlocks[2].body = << " ", "a", "\n" >>
  /\ rgResult[1] = << "a" >>

\* the strategies started during the call, in order
StrategiesStarted ==
  SelectSeq(exStarted, LAMBDA x : x \in {"worker", "chunked", "direct"})

\* C22: the strategies of extractFromPDF are started in the order worker,
\* chunked, direct, each after the one before it in the call, and none is
\* started once the call has a result
C22_StrategyOrder ==
  /\ [](exOp = "pdf"
          => StrategiesStarted \in { << >>, << "worker" >>, << "worker", "chunked" >>,
                                     << "worker", "chunked", "direct" >>,
                                     << "direct" >> })
  /\ [][ (Len(exStarted') > Len(exStarted)
           /\ exStarted'[Len(exStarted')] \in {"worker", "chunked", "direct"})
         => exOutcome.kind = "none" ]_vars

C22_Witness ==
  /\ PdfSettled
  /\ exOutcome.kind = "ok"
  /\ StrategiesStarted = << "worker", "chunked" >>

\* the recovery passes started during the call
RecoveryPasses == Cardinality({ i \in 1..Len(exStarted) : exStarted[i] = "recovery" })

\* the message of the error marks it as worker-, memory- or timeout-related
ResourceRelated(err) ==
  err.isError /\ (\E w \in {"worker", "memory", "timeout"} : w \in err.words)

\* C23: the recovery pass is started at most once, only after an error of
\* the direct path whose message is worker-, memory- or timeout-related; the
\* call fails after one recovery pass for such an error and after none, with
\* the classified message, for a corrupted, password-protected or unsupported
\* file
C23_RecoveryOnlyForResourceErrors ==
  /\ RecoveryPasses <= 1
  /\ exPc = "recovery" => ResourceRelated(exOutcome.primary) /\ RecoveryPasses = 0
  /\ (PdfSettled /\ exOutcome.kind = "error")
       => LET err == exOutcome.primary
          IN /\ ResourceRelated(err) => RecoveryPasses = 1
             /\ ~ResourceRelated(err)
                  => /\ RecoveryPasses = 0
                     /\ "corrupted" \in err.words
                          => exOutcome.message.text
                               = "The file appears to be corrupted or is not a valid PDF"
                     /\ err.words = {"password"}
                          => exOutcome.message.text
                               = "This PDF is password-protected. Please provide an unprotected version"
                     /\ err.words = {"attempts"}
                          => exOutcome.message.text
                               = "This PDF format is not supported or the file is corrupted"

C23_Witness ==
  /\ PdfSettled
  /\ exOutcome.kind = "error"
  /\ exOutcome.primary.words = {"timeout"}
  /\ exStarted = << "direct", "recovery" >>

\* C24: when the recovery pass fails too, the message of the error of the
\* call is the concatenation that carries the message of the recovery error
C24_RecoveryFailureMessage ==
  (PdfSettled /\ exOutcome.kind = "error" /\ RecoveryPasses = 1)
    => exOutcome.message = [ text |-> "Primary extraction failed, recovery also failed: ",
                             detail |-> exOutcome.recovery ]

\* C25: a failure to load the document on the direct path is the failure of
\* the call only after maxAttempts attempts
C25_LoadRetried ==
  (PdfSettled /\ exOutcome.kind = "error") => exOutcome.attempts = maxAttempts

\* C26: after every FileCache.set the cache holds at most maxEntries entries
\* and the lengths of their contents sum to at most maxSizeBytes
C26_CacheWithinCaps ==
  fcCall.op = "set"
    => /\ Len(cache) <= CacheMaxEntries
       /\ SumLengths(cache) <= CacheMaxSizeBytes

\* the last call is a FileCache.set whose ensureSpace has called evictLeastUsed
EvictionTriggered ==
  /\ fcCall.op = "set"
  /\ \/ Len(fcCall.before) >= CacheMaxEntries
     \/ SumLengths(fcCall.before) + Len(fcCall.content) > CacheMaxSizeBytes

\* C27: an eviction on n entries removes max(1, floor(n / 4)) of them, none
\* of which comes after a kept one in the order (accessCount, lastAccessed);
\* on an empty cache it removes nothing; the new entry is stored after it
C27_EvictsLeastUsedQuarter ==
  EvictionTriggered
    => LET before == fcCall.before
           kept == fcCall.space.cache
           n == Len(before)
           key == generateCacheKey(fcCall.file.name, fcCall.file.size,
                                   generateFileHash(fcCall.file))
           removed == { i \in 1..n : \A j \in 1..Len(kept) : kept[j].id # before[i].id }
           NotAfter(a, b) ==
             \/ a.accessCount < b.accessCount
             \/ a.accessCount = b.accessCount /\ a.lastAccessed <= b.lastAccessed
       IN /\ n > 0 => Cardinality(removed) = Max(1, n \div 4)
          /\ \A r \in removed : \A k \in (1..n) \ removed :
               NotAfter(before[r], before[k])
          /\ kept = Keep(before, removed, 1)
          /\ SelectSeq(cache, LAMBDA e : e.id # key)
               = SelectSeq(kept, LAMBDA e : e.id # key)
          /\ Position(cache, key) # 0
          /\ cache[Position(cache, key)].content = fcCall.content

\* the step is the 120 ms timer of pauseReading
PauseFallbackStep == lockTimer = "pause" /\ lockTimer' = "none"

\* C28: the fallback check of pauseReading cancels the engine when it is not
\* paused and still speaking, and makes no engine call otherwise; it leaves
\* the session, its currentPosition and its flags as they were
C28_FallbackCancelsUnpausedSpeech ==
  [][ PauseFallbackStep
        => /\ session' = session
           /\ (~enginePaused /\ engineQueue # << >>)
                => (calls' = << "cancel" >> /\ engineQueue' = << >>)
           /\ ~(~enginePaused /\ engineQueue # << >>)
                => (calls' = << >> /\ engineQueue' = engineQueue
                      /\ enginePaused' = enginePaused) ]_vars

C28_Witness ==
  /\ calls = << "cancel" >>
  /\ prev = NoPrev
  /\ lockTimer = "none"
  /\ ~actionLockRef
  /\ session.isPaused
  /\ session.currentPosition > 0

\* C28 as stated: the fallback check cancels the engine when it is neither
\* paused nor speaking
C28_AsStated ==
  [][ (PauseFallbackStep /\ ~enginePaused /\ engineQueue = << >>)
        => calls' = << "cancel" >> ]_vars

\* the step is a call of the user that enters the handler
UserCallStep(name) ==
  callsLeft' = callsLeft - 1 /\ calls' # << >> /\ calls'[1] = name

C30_LockedCallsChangeNothing ==
  [][ (actionLockRef
         /\ (UserCallStep("pauseReading") \/ UserCallStep("resumeReading")))
        => /\ Len(calls') = 1
           /\ UNCHANGED << session, settings, chunksRef, currentChunkIndexRef,
                           accumulatedCharactersRef, isChunkedPlaybackRef,
                           isStoppingRef, recentlyCanceled, actionLockRef,
                           engineQueue, enginePaused, staleUtterances,
                           interChunkTimers, lockTimer, stopTimers >> ]_vars

C30_Witness ==
  /\ calls = << "resumeReading" >>
  /\ actionLockRef
  /\ lockTimer = "pause"
  /\ prev.isPaused
  /\ session.isPaused
  /\ Len(chunksRef) > 0

\* C31: an error of the engine on the utterance that is being spoken, other
\* than interrupted, while no controlled stop is under way, disables chunk
\* advancement and leaves the session not playing and not paused at the same
\* currentPosition
C31_EngineErrorAbortsPlayback ==
  [][ (EngineError /\ ~isStoppingRef)
        => /\ ~isChunkedPlaybackRef'
           /\ ~session'.isPlaying
           /\ ~session'.isPaused
           /\ session'.currentPosition = session.currentPosition ]_vars

\* the indices of the window of n characters from currentIndex where one of
\* the characters is, the first half of the window left out
BreaksAfterMidpoint(currentIndex, n, chars, strictly) ==
  { i \in currentIndex..(currentIndex + n - 1) :
      /\ i < Len(text)
      /\ text[i + 1] \in chars
      /\ IF strictly THEN 2 * i > 2 * currentIndex + n ELSE 2 * i >= 2 * currentIndex + n }

\* the largest element of a non-empty set of numbers
Largest(S) == CHOOSE i \in S : \A j \in S : j <= i

\* C32: a window of N characters that does not reach the end of the text is
\* cut behind its last sentence terminator when that one lies after the
\* midpoint, else at its last space when that one lies after the midpoint,
\* else at the end of the window (a terminator or a space exactly at the
\* midpoint is left open)
C32_CutAtLastBreakInWindow ==
  \A k \in 1..Len(chunkCuts) :
    LET currentIndex == chunkCuts[k].currentIndex
        chunkEnd == chunkCuts[k].chunkEnd
        terminators == BreaksAfterMidpoint(currentIndex, maxSize, {".", "?", "!"}, TRUE)
        spaces == BreaksAfterMidpoint(currentIndex, maxSize, {" "}, TRUE)
    IN currentIndex + maxSize < Len(text)
         => /\ terminators # {} => chunkEnd = Largest(terminators) + 1
            /\ BreaksAfterMidpoint(currentIndex, maxSize, {".", "?", "!"}, FALSE) = {}
                 => /\ spaces # {} => chunkEnd = Largest(spaces)
                    /\ BreaksAfterMidpoint(currentIndex, maxSize, {" "}, FALSE) = {}
                         => chunkEnd = currentIndex + maxSize

\* the last step was a call of the user in which startReading ran past its guard
JustStarted ==
  \E i \in 1..(Len(calls) - 1) : calls[i] = "startReading" /\ calls[i + 1] = "cancel"

\* C33: the end event of an utterance that was cancelled before the current
\* session started, or of a stopped session, leaves the chunk cursor and the
\* accumulated-character counter as they are
C33_StaleEndKeepsCursor ==
  [][ (StaleEnd /\ (JustStarted \/ stopped))
        => UNCHANGED << currentChunkIndexRef, accumulatedCharactersRef >> ]_vars

\* C34: while the session shows isPlaying, the engine has an utterance in
\* flight or an inter-chunk timer is pending with chunk advancement enabled
C34_PlayingIsInProgress ==
  session.isPlaying
    => \/ engineQueue # << >>
       \/ interChunkTimers > 0 /\ isChunkedPlaybackRef

\* C35: when startReading has run since the pauseReading that armed the
\* fallback timer, the timer leaves the utterances of the engine in flight
C35_FallbackSparesRestart ==
  [][ (PauseFallbackStep /\ sinceStart = "running")
        => engineQueue' = engineQueue ]_vars

\* C36: currentPosition is between 0 and totalCharacters
C36_PositionInRange ==
  /\ 0 <= session.currentPosition
  /\ session.currentPosition <= session.totalCharacters

\* the offsets in t at which the texts of the chunks of t begin
ChunkOffsets(t, n) ==
  LET Piece(c) == Slice(t, c.currentIndex, c.chunkEnd)
      kept == SelectSeq(ChunkCuts(t, n, 0), LAMBDA c : Trim(Piece(c)) # << >>)
  IN [ k \in 1..Len(kept) |->
         kept[k].currentIndex + (Len(Piece(kept[k])) - Len(TrimStart(Piece(kept[k])))) ]

\* C37: while a chunk of a session of several chunks is being spoken, the
\* accumulated-character counter is the offset in the content at which the
\* text of the chunk begins
C37_CounterIsChunkOffset ==
  (engineQueue # << >> /\ Len(chunksRef) > 1 /\ currentChunkIndexRef < Len(chunksRef))
    => \E fromPosition \in 0..Len(session.content) :
         LET textToRead == Slice(session.content, fromPosition, Len(session.content))
         IN /\ chunksRef = chunkTextForSpeech(textToRead, SpeechChunkSize)
            /\ accumulatedCharactersRef
                 = fromPosition
                     + ChunkOffsets(textToRead, SpeechChunkSize)[currentChunkIndexRef + 1]

\* C38: pauseReading called on a session that is neither playing nor paused
\* leaves it neither playing nor paused
C38_PauseOnlyFromPlaying ==
  (UserCalled("pauseReading") /\ ~prev.isPlaying /\ ~prev.isPaused)
    => (~session.isPaused /\ ~session.isPlaying)

\* C39: the entry that FileCache.get returns is not older than maxAge
C39_GetReturnsFreshEntry ==
  (fcCall.op = "get" /\ fcCall.returned # << >>)
    => fcCall.at - fcCall.returned[1].timestamp <= CacheMaxAge

\* C40: while the application is mounted, a blob URL that the effect of
\* AppContent has released because its content source was replaced has been
\* revoked and has no count left
C40_ReplacedUrlIsRevoked ==
  blMounted => \A url \in blReplaced : url \in revoked /\ refs[url] = 0

====
